---------------------------- MODULE Spec2Model ----------------------------
(***************************************************************************)
(* A model of ezno's TypeStore (checker/src/types/store.rs): the arena of  *)
(* type descriptors indexed by TypeId, its default contents, and the smart *)
(* constructors that normalise before registering.                         *)
(*                                                                         *)
(* A TypeId is a 0-based index, so the descriptor of id i is element i + 1 *)
(* of the sequence `types`.  Every constructor is a function from a store  *)
(* (and its arguments) to the store it leaves behind and the id it         *)
(* returns: the record [types |-> ..., id |-> ...].                        *)
(***************************************************************************)
EXTENDS Integers, Sequences, FiniteSets, TLC

VARIABLES
    types,               \* TypeStore.types: Vec<Type>
    lookup_generic_map,  \* TypeStore.lookup_generic_map
    parameter_names,     \* TypeStore.parameter_names
    functions,           \* TypeStore.functions
    called_functions,    \* TypeStore.called_functions
    closure_counter,     \* TypeStore.closure_counter
    info,                \* Environment.info, as far as the object builder writes it
    panic,               \* None while the program runs, Some(message) once it panicked
    last                 \* the last call made on the store: its name, arguments, result

\* the fields of the store besides `types`
auxiliary == <<lookup_generic_map, parameter_names, functions, called_functions, closure_counter>>

vars == <<types, auxiliary, info, panic, last>>

---------------------------------------------------------------------------
(* Bounds of the model *)

\* how many types the calls of one behaviour may register on top of the built-in ones
MaxUserTypes == 2

\* how many types a behaviour of the union-only specification may register
MaxUnionTypes == 5

\* how many types a behaviour of the intersection specification may register
MaxIntersectionTypes == 4

\* how many types a behaviour of the mutation specification may register
MaxMutationTypes == 2

\* how many ids are left when a behaviour of the id-range specification starts
RangeMargin == 1

\* regular expressions: how many of the compiled expressions and their string
\* operands are registered, and how many types there are once exec has run on them
MaxRegExpOperands == 2

MaxRegExpTypes == 9

\* how many types a behaviour of the specification of the constructors may register
MaxConstructorTypes == 2

\* how many types a behaviour of the narrowing specification may register
MaxNarrowedTypes == 4

---------------------------------------------------------------------------
(* TypeId: the reserved identifiers, in the order of the vector of `default` *)

TypeId_ERROR_TYPE == 0
TypeId_NEVER_TYPE == 1
TypeId_ANY_TYPE == 2
TypeId_BOOLEAN_TYPE == 3
TypeId_NUMBER_TYPE == 4
TypeId_STRING_TYPE == 5
TypeId_UNDEFINED_TYPE == 6
TypeId_NULL_TYPE == 7
TypeId_VOID_TYPE == 8
TypeId_ARRAY_TYPE == 9
TypeId_PROMISE_TYPE == 10
TypeId_T_TYPE == 11
TypeId_OBJECT_TYPE == 12
TypeId_FUNCTION_TYPE == 13
TypeId_REGEXP_TYPE == 14
TypeId_SYMBOL_TYPE == 15
TypeId_TRUE == 16
TypeId_FALSE == 17
TypeId_ZERO == 18
TypeId_ONE == 19
TypeId_NAN == 20
TypeId_NEG_INFINITY == 21
TypeId_INFINITY == 22
TypeId_FLOAT_MIN == 23
TypeId_FLOAT_MAX == 24
TypeId_FLOAT_EPSILON == 25
TypeId_MAX_U32 == 26
TypeId_EMPTY_STRING == 27
TypeId_THIS_TYPE == 28
TypeId_NEW_TARGET_ARG == 29
TypeId_IMPORT_META == 30
TypeId_SYMBOL_ITERATOR == 31
TypeId_SYMBOL_ASYNC_ITERATOR == 32
TypeId_SYMBOL_HAS_INSTANCE == 33
TypeId_SYMBOL_TO_PRIMITIVE == 34
TypeId_STRING_GENERIC == 35
TypeId_STRING_UPPERCASE == 36
TypeId_STRING_LOWERCASE == 37
TypeId_STRING_CAPITALIZE == 38
TypeId_STRING_UNCAPITALIZE == 39
TypeId_NO_INFER == 40
TypeId_READONLY_RESTRICTION == 41
TypeId_NON_OPTIONAL_KEY_ARGUMENT == 42
TypeId_WRITABLE_KEY_ARGUMENT == 43
TypeId_NUMBER_GENERIC == 44
TypeId_GREATER_THAN == 45
TypeId_LESS_THAN == 46
TypeId_MULTIPLE_OF == 47
TypeId_NOT_NOT_A_NUMBER == 48
TypeId_NUMBER_BUT_NOT_NOT_A_NUMBER == 49
TypeId_LITERAL_RESTRICTION == 50
TypeId_EXCLUSIVE_RESTRICTION == 51
TypeId_NOT_RESTRICTION == 52
TypeId_CASE_INSENSITIVE == 53
TypeId_OPEN_BOOLEAN_TYPE == 54
TypeId_OPEN_NUMBER_TYPE == 55
TypeId_STRING_OR_NUMBER == 56

\* the length the vector of `default` is asserted to have
TypeId_INTERNAL_TYPE_COUNT == 57

---------------------------------------------------------------------------
(* f64, as far as the constants of the store need it: a class, a sign and, *)
(* for the finite integers, a magnitude.  -0 and +0 are different values   *)
(* that compare equal; NaN compares equal to nothing.                      *)

F64(cls, neg, mag) == [cls |-> cls, neg |-> neg, mag |-> mag]

f64_from(n) == F64("finite", n < 0, IF n < 0 THEN 0 - n ELSE n)
f64_NEG_ZERO == F64("finite", TRUE, 0)
f64_NAN == F64("nan", FALSE, 0)
f64_INFINITY == F64("inf", FALSE, 0)
f64_NEG_INFINITY == F64("inf", TRUE, 0)
f64_MAX == F64("max", FALSE, 0)
f64_MIN == F64("max", TRUE, 0)
f64_EPSILON == F64("epsilon", FALSE, 0)

\* `==` of f64 (IEEE 754)
f64_eq(a, b) ==
    IF a.cls = "nan" \/ b.cls = "nan" THEN FALSE
    ELSE IF a.cls = "finite" /\ b.cls = "finite" /\ a.mag = 0 /\ b.mag = 0 THEN TRUE
    ELSE a = b

f64_is_nan(a) == a.cls = "nan"

---------------------------------------------------------------------------
(* Constant.  The text of a String is the sequence of its characters. *)

Constant_Number(n) == [constant |-> "Number", number |-> n]
Constant_String(s) == [constant |-> "String", string |-> s]
Constant_Boolean(b) == [constant |-> "Boolean", boolean |-> b]
Constant_Symbol(key) == [constant |-> "Symbol", key |-> key]
Constant_Undefined == [constant |-> "Undefined"]

---------------------------------------------------------------------------
(* Type: the descriptors.  An Option is a sequence of length 0 or 1. *)

None == <<>>
Some(x) == <<x>>

Type_Interface(name, parameters, extends) ==
    [variant |-> "Interface", name |-> name, parameters |-> parameters, extends |-> extends]
Type_Class(name, type_parameters) ==
    [variant |-> "Class", name |-> name, type_parameters |-> type_parameters]
Type_AliasTo(to, name, parameters) ==
    [variant |-> "AliasTo", to |-> to, name |-> name, parameters |-> parameters]
Type_Constant(constant) == [variant |-> "Constant", constant |-> constant]
Type_Or(lhs, rhs) == [variant |-> "Or", lhs |-> lhs, rhs |-> rhs]
Type_And(lhs, rhs) == [variant |-> "And", lhs |-> lhs, rhs |-> rhs]
Type_SpecialObject_Null == [variant |-> "SpecialObject", special |-> "Null"]
Type_RootPolyType(nature) == [variant |-> "RootPolyType", nature |-> nature]
Type_PartiallyAppliedGenerics(on, arguments) ==
    [variant |-> "PartiallyAppliedGenerics", on |-> on, arguments |-> arguments]
Type_Constructor(constructor) == [variant |-> "Constructor", constructor |-> constructor]
Type_Narrowed(from, narrowed_to) ==
    [variant |-> "Narrowed", from |-> from, narrowed_to |-> narrowed_to]

PolyNature_Error(base) == [nature |-> "Error", base |-> base]
PolyNature_Open(base) == [nature |-> "Open", base |-> base]
PolyNature_StructureGeneric(name, extends) ==
    [nature |-> "StructureGeneric", name |-> name, extends |-> extends]
PolyNature_FunctionGeneric(name, extends) ==
    [nature |-> "FunctionGeneric", name |-> name, extends |-> extends]
PolyNature_MappedGeneric(name, extends) ==
    [nature |-> "MappedGeneric", name |-> name, extends |-> extends]
PolyNature_FreeVariable(reference, based_on) ==
    [nature |-> "FreeVariable", reference |-> reference, based_on |-> based_on]
PolyNature_Parameter(fixed_to, variable_id) ==
    [nature |-> "Parameter", fixed_to |-> fixed_to, variable_id |-> variable_id]

Constructor_ConditionalResult(condition, truthy_result, otherwise_result, result_union) ==
    [constructor |-> "ConditionalResult", condition |-> condition,
     truthy_result |-> truthy_result, otherwise_result |-> otherwise_result,
     result_union |-> result_union]

\* GenericArguments::ExplicitRestrictions with one entry (the position is left out)
ExplicitRestrictions(parameter, argument) ==
    [arguments |-> "ExplicitRestrictions", parameter |-> parameter, argument |-> argument]

---------------------------------------------------------------------------
(* impl Default for TypeStore: the built-in descriptors, in the order of   *)
(* the reserved identifiers                                                *)

default_types ==
    << Type_RootPolyType(PolyNature_Error(TypeId_ANY_TYPE)),
       Type_Interface("never", None, None),
       Type_Interface("any", None, None),
       Type_Class("boolean", None),
       Type_Class("number", None),
       Type_Class("string", None),
       Type_Constant(Constant_Undefined),
       Type_SpecialObject_Null,
       Type_AliasTo(TypeId_UNDEFINED_TYPE, "void", None),
       Type_Class("Array", Some(<<TypeId_T_TYPE>>)),
       Type_Class("Promise", Some(<<TypeId_T_TYPE>>)),
       Type_RootPolyType(PolyNature_StructureGeneric("T", TypeId_ANY_TYPE)),
       Type_Interface("object", None, None),
       Type_Class("Function", None),
       Type_Class("RegExp", None),
       Type_Class("Symbol", None),
       Type_Constant(Constant_Boolean(TRUE)),
       Type_Constant(Constant_Boolean(FALSE)),
       Type_Constant(Constant_Number(f64_from(0))),
       Type_Constant(Constant_Number(f64_from(1))),
       Type_Constant(Constant_Number(f64_NAN)),
       Type_Constant(Constant_Number(f64_NEG_INFINITY)),
       Type_Constant(Constant_Number(f64_INFINITY)),
       Type_Constant(Constant_Number(f64_MIN)),
       Type_Constant(Constant_Number(f64_MAX)),
       Type_Constant(Constant_Number(f64_EPSILON)),
       Type_Constant(Constant_Number(f64_from(0 - 1))),
       Type_Constant(Constant_String(<<>>)),
       Type_RootPolyType(PolyNature_FreeVariable("This", TypeId_ANY_TYPE)),
       Type_RootPolyType(PolyNature_FunctionGeneric("new.target", TypeId_ANY_TYPE)),
       Type_Interface("ImportMeta", None, None),
       Type_Constant(Constant_Symbol("iterator")),
       Type_Constant(Constant_Symbol("asyncIterator")),
       Type_Constant(Constant_Symbol("hasInstance")),
       Type_Constant(Constant_Symbol("toPrimitive")),
       Type_RootPolyType(PolyNature_StructureGeneric("S", TypeId_STRING_TYPE)),
       Type_AliasTo(TypeId_STRING_TYPE, "Uppercase", Some(<<TypeId_STRING_GENERIC>>)),
       Type_AliasTo(TypeId_STRING_TYPE, "Lowercase", Some(<<TypeId_STRING_GENERIC>>)),
       Type_AliasTo(TypeId_STRING_TYPE, "Capitalize", Some(<<TypeId_STRING_GENERIC>>)),
       Type_AliasTo(TypeId_STRING_TYPE, "Uncapitalize", Some(<<TypeId_STRING_GENERIC>>)),
       Type_AliasTo(TypeId_T_TYPE, "NoInfer", Some(<<TypeId_T_TYPE>>)),
       Type_AliasTo(TypeId_T_TYPE, "Readonly", Some(<<TypeId_T_TYPE>>)),
       Type_RootPolyType(PolyNature_MappedGeneric("NonOptional", TypeId_BOOLEAN_TYPE)),
       Type_RootPolyType(PolyNature_MappedGeneric("Writable", TypeId_BOOLEAN_TYPE)),
       Type_RootPolyType(PolyNature_StructureGeneric("T", TypeId_NUMBER_TYPE)),
       Type_AliasTo(TypeId_NUMBER_TYPE, "GreaterThan", Some(<<TypeId_NUMBER_GENERIC>>)),
       Type_AliasTo(TypeId_NUMBER_TYPE, "LessThan", Some(<<TypeId_NUMBER_GENERIC>>)),
       Type_AliasTo(TypeId_NUMBER_TYPE, "MultipleOf", Some(<<TypeId_NUMBER_GENERIC>>)),
       Type_PartiallyAppliedGenerics(TypeId_NOT_RESTRICTION,
                                     ExplicitRestrictions(TypeId_T_TYPE, TypeId_NAN)),
       Type_And(TypeId_NUMBER_TYPE, TypeId_NOT_NOT_A_NUMBER),
       Type_AliasTo(TypeId_T_TYPE, "Literal", Some(<<TypeId_T_TYPE>>)),
       Type_AliasTo(TypeId_T_TYPE, "Exclusive", Some(<<TypeId_T_TYPE>>)),
       Type_AliasTo(TypeId_ANY_TYPE, "Not", Some(<<TypeId_T_TYPE>>)),
       Type_AliasTo(TypeId_STRING_TYPE, "CaseInsensitive", Some(<<TypeId_STRING_GENERIC>>)),
       Type_RootPolyType(PolyNature_Open(TypeId_BOOLEAN_TYPE)),
       Type_RootPolyType(PolyNature_Open(TypeId_NUMBER_TYPE)),
       Type_Or(TypeId_STRING_TYPE, TypeId_NUMBER_TYPE) >>

\* lookup_generic_map of the default store: Array binds T to NumberPropertyOfSelf
default_lookup_generic_map ==
    { <<TypeId_ARRAY_TYPE, {<<TypeId_T_TYPE, "NumberPropertyOfSelf">>}>> }

\* Environment.info before anything is recorded: the prototypes of the objects
\* and the properties registered on them, in the order they were registered
LocalInformation_default == [prototypes |-> {}, current_properties |-> {}]

---------------------------------------------------------------------------
(* impl TypeStore.  S is the vector `types` of the store the call is made  *)
(* on; a call that returns a TypeId yields Ret(the vector afterwards, id). *)

\* a value computed once and named in what follows, as a `let` of the source does
Let(value, In(_)) == In(value)

Ret(S, id) == [types |-> S, id |-> id]

\* a call that panicked, and the vector it leaves behind
Panic(S, message) == [types |-> S, panic |-> message]

panicked(r) == "panic" \in DOMAIN r

\* TypeId wraps a u16
u16_MAX == 65535

count_of_types(S) == Len(S)

\* a slip: the id is taken after the push
register_type_id_after_push(S, ty) == Ret(Append(S, ty), Len(Append(S, ty)))

\* a slip: the length is cast (`as u16`), which wraps, instead of converted
register_type_wrapping(S, ty) == Ret(Append(S, ty), Len(S) % (u16_MAX + 1))

register_type(S, ty) ==
    IF Len(S) > u16_MAX THEN Panic(S, "too many types!")
    ELSE Ret(Append(S, ty), Len(S))

get_type_by_id(S, id) == S[id + 1]

\* a slip: NaN is looked for with `==`, which no NaN satisfies
new_constant_type_nan_by_eq(S, constant) ==
    IF constant.constant = "String" /\ constant.string = <<>> THEN Ret(S, TypeId_EMPTY_STRING)
    ELSE IF constant.constant = "Number" /\ f64_eq(constant.number, f64_from(0))
        THEN Ret(S, TypeId_ZERO)
    ELSE IF constant.constant = "Number" /\ f64_eq(constant.number, f64_from(1))
        THEN Ret(S, TypeId_ONE)
    ELSE IF constant.constant = "Number" /\ f64_eq(constant.number, f64_NEG_INFINITY)
        THEN Ret(S, TypeId_NEG_INFINITY)
    ELSE IF constant.constant = "Number" /\ f64_eq(constant.number, f64_INFINITY)
        THEN Ret(S, TypeId_INFINITY)
    ELSE IF constant.constant = "Number" /\ f64_eq(constant.number, f64_NAN)
        THEN Ret(S, TypeId_NAN)
    ELSE IF constant = Constant_Boolean(TRUE) THEN Ret(S, TypeId_TRUE)
    ELSE IF constant = Constant_Boolean(FALSE) THEN Ret(S, TypeId_FALSE)
    ELSE register_type(S, Type_Constant(constant))

new_constant_type(S, constant) ==
    IF constant.constant = "String" /\ constant.string = <<>> THEN Ret(S, TypeId_EMPTY_STRING)
    ELSE IF constant.constant = "Number" /\ f64_eq(constant.number, f64_from(0))
        THEN Ret(S, TypeId_ZERO)
    ELSE IF constant.constant = "Number" /\ f64_eq(constant.number, f64_from(1))
        THEN Ret(S, TypeId_ONE)
    ELSE IF constant.constant = "Number" /\ f64_eq(constant.number, f64_NEG_INFINITY)
        THEN Ret(S, TypeId_NEG_INFINITY)
    ELSE IF constant.constant = "Number" /\ f64_eq(constant.number, f64_INFINITY)
        THEN Ret(S, TypeId_INFINITY)
    ELSE IF constant.constant = "Number" /\ f64_is_nan(constant.number)
        THEN Ret(S, TypeId_NAN)
    ELSE IF constant = Constant_Boolean(TRUE) THEN Ret(S, TypeId_TRUE)
    ELSE IF constant = Constant_Boolean(FALSE) THEN Ret(S, TypeId_FALSE)
    ELSE register_type(S, Type_Constant(constant))

RECURSIVE new_or_type(_, _, _)

\* new_or_type with one slip, named by `slip`
new_or_type_with(S, lhs, rhs, slip) ==
    IF slip # "no idempotence" /\ lhs = rhs THEN Ret(S, lhs)
    ELSE IF \/ <<lhs, rhs>> = <<TypeId_TRUE, TypeId_FALSE>>
            \/ slip # "one boolean order" /\ <<lhs, rhs>> = <<TypeId_FALSE, TypeId_TRUE>>
        THEN Ret(S, TypeId_OPEN_BOOLEAN_TYPE)
    ELSE IF lhs = TypeId_NEVER_TYPE THEN Ret(S, rhs)
    ELSE IF slip # "never on the left only" /\ rhs = TypeId_NEVER_TYPE THEN Ret(S, lhs)
    ELSE IF slip = "outer first" /\ get_type_by_id(S, lhs).variant = "Or"
        THEN LET outer == register_type(S, Type_Or(get_type_by_id(S, lhs).lhs, Len(S) + 1))
                 inner == new_or_type(outer.types, get_type_by_id(S, lhs).rhs, rhs)
             IN  Ret(inner.types, outer.id)
    ELSE IF slip # "no flattening" /\ get_type_by_id(S, lhs).variant = "Or"
        THEN LET new_lhs == get_type_by_id(S, lhs).lhs
                 r == new_or_type(S, get_type_by_id(S, lhs).rhs, rhs)
             IN  IF panicked(r) THEN r ELSE new_or_type(r.types, new_lhs, r.id)
    ELSE IF /\ slip # "no absorption"
            /\ get_type_by_id(S, rhs).variant = "Or" /\ lhs = get_type_by_id(S, rhs).lhs
        THEN new_or_type(S, lhs, get_type_by_id(S, rhs).rhs)
    ELSE IF /\ slip # "no absorption"
            /\ get_type_by_id(S, rhs).variant = "Or" /\ lhs = get_type_by_id(S, rhs).rhs
        THEN new_or_type(S, lhs, get_type_by_id(S, rhs).lhs)
    ELSE IF slip = "interning" /\ \E id \in 0 .. (Len(S) - 1) : S[id + 1] = Type_Or(lhs, rhs)
        THEN Ret(S, CHOOSE id \in 0 .. (Len(S) - 1) : S[id + 1] = Type_Or(lhs, rhs))
    ELSE register_type(S, Type_Or(lhs, rhs))

new_or_type_no_idempotence(S, lhs, rhs) == new_or_type_with(S, lhs, rhs, "no idempotence")

new_or_type_one_boolean_order(S, lhs, rhs) == new_or_type_with(S, lhs, rhs, "one boolean order")

new_or_type_never_on_the_left_only(S, lhs, rhs) == new_or_type_with(S, lhs, rhs, "never on the left only")

new_or_type_no_flattening(S, lhs, rhs) == new_or_type_with(S, lhs, rhs, "no flattening")

new_or_type_no_absorption(S, lhs, rhs) == new_or_type_with(S, lhs, rhs, "no absorption")

new_or_type_interning(S, lhs, rhs) == new_or_type_with(S, lhs, rhs, "interning")

\* a slip: the outer union is registered first, with the id the inner one is expected to get
new_or_type_outer_first(S, lhs, rhs) == new_or_type_with(S, lhs, rhs, "outer first")

new_or_type(S, lhs, rhs) ==
    IF lhs = rhs THEN Ret(S, lhs)
    ELSE IF <<lhs, rhs>> \in {<<TypeId_TRUE, TypeId_FALSE>>, <<TypeId_FALSE, TypeId_TRUE>>}
        THEN Ret(S, TypeId_OPEN_BOOLEAN_TYPE)
    ELSE IF lhs = TypeId_NEVER_TYPE THEN Ret(S, rhs)
    ELSE IF rhs = TypeId_NEVER_TYPE THEN Ret(S, lhs)
    ELSE IF get_type_by_id(S, lhs).variant = "Or"
        THEN LET new_lhs == get_type_by_id(S, lhs).lhs
                 r == new_or_type(S, get_type_by_id(S, lhs).rhs, rhs)
             IN  IF panicked(r) THEN r ELSE new_or_type(r.types, new_lhs, r.id)
    ELSE IF get_type_by_id(S, rhs).variant = "Or" /\ lhs = get_type_by_id(S, rhs).lhs
        THEN new_or_type(S, lhs, get_type_by_id(S, rhs).rhs)
    ELSE IF get_type_by_id(S, rhs).variant = "Or" /\ lhs = get_type_by_id(S, rhs).rhs
        THEN new_or_type(S, lhs, get_type_by_id(S, rhs).lhs)
    ELSE register_type(S, Type_Or(lhs, rhs))

\* iter.reduce(new_or_type): the fold from the first element, NEVER_TYPE when empty
RECURSIVE reduce_new_or_type(_, _, _)
reduce_new_or_type(S, acc, rest) ==
    IF rest = <<>> THEN Ret(S, acc)
    ELSE LET r == new_or_type(S, acc, Head(rest))
         IN  IF panicked(r) THEN r ELSE reduce_new_or_type(r.types, r.id, Tail(rest))

new_or_type_from_iterator(S, iter) ==
    IF iter = <<>> THEN Ret(S, TypeId_NEVER_TYPE)
    ELSE reduce_new_or_type(S, Head(iter), Tail(iter))

RECURSIVE new_and_type(_, _, _)

\* a slip: the union on the left is distributed over only after the constants are looked at
new_and_type_constant_first(S, lhs, rhs) ==
    IF lhs = rhs THEN Ret(S, lhs)
    ELSE IF get_type_by_id(S, lhs).variant = "Constant" THEN Ret(S, lhs)
    ELSE IF get_type_by_id(S, rhs).variant = "Constant" THEN Ret(S, rhs)
    ELSE IF get_type_by_id(S, lhs).variant = "Or"
        THEN LET lhs_type == get_type_by_id(S, lhs)
                 new_lhs == new_and_type(S, lhs_type.lhs, rhs)
                 new_rhs == new_and_type(new_lhs.types, lhs_type.rhs, rhs)
             IN  IF panicked(new_lhs) THEN new_lhs
                 ELSE IF panicked(new_rhs) THEN new_rhs
                 ELSE new_or_type(new_rhs.types, new_lhs.id, new_rhs.id)
    ELSE IF get_type_by_id(S, rhs).variant = "Or"
        THEN LET rhs_type == get_type_by_id(S, rhs)
                 new_lhs == new_and_type(S, lhs, rhs_type.lhs)
                 new_rhs == new_and_type(new_lhs.types, lhs, rhs_type.rhs)
             IN  IF panicked(new_lhs) THEN new_lhs
                 ELSE IF panicked(new_rhs) THEN new_rhs
                 ELSE new_or_type(new_rhs.types, new_lhs.id, new_rhs.id)
    ELSE IF get_type_by_id(S, rhs).variant = "And"
        THEN LET rhs_type == get_type_by_id(S, rhs)
                 l == new_and_type(S, lhs, rhs_type.lhs)
             IN  IF panicked(l) THEN l ELSE new_and_type(l.types, l.id, rhs_type.rhs)
    ELSE register_type(S, Type_And(lhs, rhs))

\* a slip: a constant on the right does not take the intersection over
new_and_type_constant_on_the_left_only(S, lhs, rhs) ==
    IF lhs = rhs THEN Ret(S, lhs)
    ELSE IF get_type_by_id(S, lhs).variant = "Or"
        THEN LET lhs_type == get_type_by_id(S, lhs)
                 new_lhs == new_and_type(S, lhs_type.lhs, rhs)
                 new_rhs == new_and_type(new_lhs.types, lhs_type.rhs, rhs)
             IN  IF panicked(new_lhs) THEN new_lhs
                 ELSE IF panicked(new_rhs) THEN new_rhs
                 ELSE new_or_type(new_rhs.types, new_lhs.id, new_rhs.id)
    ELSE IF get_type_by_id(S, rhs).variant = "Or"
        THEN LET rhs_type == get_type_by_id(S, rhs)
                 new_lhs == new_and_type(S, lhs, rhs_type.lhs)
                 new_rhs == new_and_type(new_lhs.types, lhs, rhs_type.rhs)
             IN  IF panicked(new_lhs) THEN new_lhs
                 ELSE IF panicked(new_rhs) THEN new_rhs
                 ELSE new_or_type(new_rhs.types, new_lhs.id, new_rhs.id)
    ELSE IF get_type_by_id(S, lhs).variant = "Constant" THEN Ret(S, lhs)
    ELSE IF get_type_by_id(S, rhs).variant = "And"
        THEN LET rhs_type == get_type_by_id(S, rhs)
                 l == new_and_type(S, lhs, rhs_type.lhs)
             IN  IF panicked(l) THEN l ELSE new_and_type(l.types, l.id, rhs_type.rhs)
    ELSE register_type(S, Type_And(lhs, rhs))

new_and_type(S, lhs, rhs) ==
    IF lhs = rhs THEN Ret(S, lhs)
    ELSE IF get_type_by_id(S, lhs).variant = "Or"
        THEN LET lhs_type == get_type_by_id(S, lhs)
                 new_lhs == new_and_type(S, lhs_type.lhs, rhs)
                 new_rhs == new_and_type(new_lhs.types, lhs_type.rhs, rhs)
             IN  IF panicked(new_lhs) THEN new_lhs
                 ELSE IF panicked(new_rhs) THEN new_rhs
                 ELSE new_or_type(new_rhs.types, new_lhs.id, new_rhs.id)
    ELSE IF get_type_by_id(S, rhs).variant = "Or"
        THEN LET rhs_type == get_type_by_id(S, rhs)
                 new_lhs == new_and_type(S, lhs, rhs_type.lhs)
                 new_rhs == new_and_type(new_lhs.types, lhs, rhs_type.rhs)
             IN  IF panicked(new_lhs) THEN new_lhs
                 ELSE IF panicked(new_rhs) THEN new_rhs
                 ELSE new_or_type(new_rhs.types, new_lhs.id, new_rhs.id)
    ELSE IF get_type_by_id(S, lhs).variant = "Constant" THEN Ret(S, lhs)
    ELSE IF get_type_by_id(S, rhs).variant = "Constant" THEN Ret(S, rhs)
    ELSE IF get_type_by_id(S, rhs).variant = "And"
        THEN LET rhs_type == get_type_by_id(S, rhs)
                 l == new_and_type(S, lhs, rhs_type.lhs)
             IN  IF panicked(l) THEN l ELSE new_and_type(l.types, l.id, rhs_type.rhs)
    ELSE register_type(S, Type_And(lhs, rhs))

\* whether `condition` is a ConditionalResult with truthy FALSE and otherwise TRUE
is_negation(S, condition) ==
    /\ get_type_by_id(S, condition).variant = "Constructor"
    /\ get_type_by_id(S, condition).constructor.constructor = "ConditionalResult"
    /\ get_type_by_id(S, condition).constructor.truthy_result = TypeId_FALSE
    /\ get_type_by_id(S, condition).constructor.otherwise_result = TypeId_TRUE

RECURSIVE new_conditional_type(_, _, _, _)

\* a slip: a negated condition is reversed before `x ? true : false` is looked for
new_conditional_type_reverse_first(S, condition, truthy_result, otherwise_result) ==
    IF truthy_result = otherwise_result THEN Ret(S, truthy_result)
    ELSE IF condition = TypeId_TRUE THEN Ret(S, truthy_result)
    ELSE IF condition = TypeId_FALSE THEN Ret(S, otherwise_result)
    ELSE IF is_negation(S, condition)
        THEN new_conditional_type(S, get_type_by_id(S, condition).constructor.condition,
                                  otherwise_result, truthy_result)
    ELSE IF truthy_result = TypeId_TRUE /\ otherwise_result = TypeId_FALSE
        THEN Ret(S, condition)
    ELSE LET result_union == new_or_type(S, truthy_result, otherwise_result)
         IN  IF panicked(result_union) THEN result_union
             ELSE register_type(result_union.types,
                                Type_Constructor(Constructor_ConditionalResult(
                                    condition, truthy_result, otherwise_result,
                                    result_union.id)))

\* a slip: the results are not exchanged when a negated condition is reversed
new_conditional_type_results_in_place(S, condition, truthy_result, otherwise_result) ==
    IF truthy_result = otherwise_result THEN Ret(S, truthy_result)
    ELSE IF condition = TypeId_TRUE THEN Ret(S, truthy_result)
    ELSE IF condition = TypeId_FALSE THEN Ret(S, otherwise_result)
    ELSE IF truthy_result = TypeId_TRUE /\ otherwise_result = TypeId_FALSE
        THEN Ret(S, condition)
    ELSE IF is_negation(S, condition)
        THEN new_conditional_type(S, get_type_by_id(S, condition).constructor.condition,
                                  truthy_result, otherwise_result)
    ELSE LET result_union == new_or_type(S, truthy_result, otherwise_result)
         IN  IF panicked(result_union) THEN result_union
             ELSE register_type(result_union.types,
                                Type_Constructor(Constructor_ConditionalResult(
                                    condition, truthy_result, otherwise_result,
                                    result_union.id)))

new_conditional_type(S, condition, truthy_result, otherwise_result) ==
    IF truthy_result = otherwise_result THEN Ret(S, truthy_result)
    ELSE IF condition = TypeId_TRUE THEN Ret(S, truthy_result)
    ELSE IF condition = TypeId_FALSE THEN Ret(S, otherwise_result)
    ELSE IF truthy_result = TypeId_TRUE /\ otherwise_result = TypeId_FALSE
        THEN Ret(S, condition)
    ELSE IF is_negation(S, condition)
        THEN new_conditional_type(S, get_type_by_id(S, condition).constructor.condition,
                                  otherwise_result, truthy_result)
    ELSE LET result_union == new_or_type(S, truthy_result, otherwise_result)
         IN  IF panicked(result_union) THEN result_union
             ELSE register_type(result_union.types,
                                Type_Constructor(Constructor_ConditionalResult(
                                    condition, truthy_result, otherwise_result,
                                    result_union.id)))

new_logical_negation_type(S, condition) ==
    register_type(S, Type_Constructor(Constructor_ConditionalResult(
        condition, TypeId_FALSE, TypeId_TRUE, TypeId_BOOLEAN_TYPE)))

\* HashMap::insert on a map kept as a set of <<key, value>> pairs
insert(map, key, value) == { e \in map : e[1] # key } \cup { <<key, value>> }

\* besides the vector and the id, the call yields the parameter names it leaves
new_function_parameter(S, names, parameter_constraint, variable_id, name) ==
    LET inserted == insert(names, variable_id, name)
        ty == get_type_by_id(S, parameter_constraint)
    IN  IF ty.variant = "RootPolyType" /\ ty.nature.nature = "FunctionGeneric"
        THEN [types |-> S, id |-> parameter_constraint, parameter_names |-> inserted]
        ELSE LET r == register_type(S, Type_RootPolyType(
                          PolyNature_Parameter(parameter_constraint, variable_id)))
             IN  [f \in DOMAIN r \cup {"parameter_names"} |->
                     IF f = "parameter_names" THEN inserted ELSE r[f]]

\* the pattern new_narrowed looks for in the new constraint: a partially applied
\* GreaterThan, LessThan, MultipleOf or Not
is_partially_applied_restriction(ty) ==
    /\ ty.variant = "PartiallyAppliedGenerics"
    /\ ty.on \in {TypeId_GREATER_THAN, TypeId_LESS_THAN, TypeId_MULTIPLE_OF,
                  TypeId_NOT_RESTRICTION}

\* a slip: a narrowed type is narrowed as any other, its own `from` and bound left aside
new_narrowed_nesting(S, from, narrowed_to) ==
    register_type(S, Type_Narrowed(from, narrowed_to))

new_narrowed(S, from, narrowed_to) ==
    LET from_ty == get_type_by_id(S, from)
        new_constraint == get_type_by_id(S, narrowed_to)
        origin == IF from_ty.variant = "Narrowed" THEN from_ty.from ELSE from
        existing == IF from_ty.variant = "Narrowed" THEN Some(from_ty.narrowed_to) ELSE None
    IN  IF existing # None /\ is_partially_applied_restriction(new_constraint)
        THEN Let(new_and_type(S, existing[1], narrowed_to), LAMBDA and :
                 IF panicked(and) THEN and
                 ELSE register_type(and.types, Type_Narrowed(origin, and.id)))
        ELSE register_type(S, Type_Narrowed(origin, narrowed_to))

---------------------------------------------------------------------------
(* The controlled mutations.  They return nothing: Ret(the vector, None). *)

\* `self.types[id.0 as usize]` panics for an id that is not in the vector
index_out_of_bounds(S, id) == id >= Len(S)

is_structure_generic(ty) ==
    ty.variant = "RootPolyType" /\ ty.nature.nature = "StructureGeneric"

is_parameter(ty) == ty.variant = "RootPolyType" /\ ty.nature.nature = "Parameter"

modify_interface_type_parameter_constraint(S, ty, constraint) ==
    IF index_out_of_bounds(S, ty) THEN Panic(S, "index out of bounds")
    ELSE IF is_structure_generic(S[ty + 1])
        THEN Ret([S EXCEPT ![ty + 1].nature.extends = constraint], None)
    ELSE Panic(S, "not yet implemented")

\* types.get_mut gives None for an id that is not in the vector
set_inferred_constraint(S, ty, constraint) ==
    IF ~index_out_of_bounds(S, ty) /\ is_parameter(S[ty + 1])
        THEN Ret([S EXCEPT ![ty + 1].nature.fixed_to = constraint], None)
    ELSE Panic(S, "explicit panic")

\* a slip: an interface that extends nothing is given `extends` too
set_extends_on_interface_originating(S, interface_type, extends) ==
    IF index_out_of_bounds(S, interface_type) THEN Panic(S, "index out of bounds")
    ELSE IF S[interface_type + 1].variant = "Interface"
        THEN Ret([S EXCEPT ![interface_type + 1].extends = Some(extends)], None)
    ELSE Ret(S, None)

set_extends_on_interface(S, interface_type, extends) ==
    IF index_out_of_bounds(S, interface_type) THEN Panic(S, "index out of bounds")
    ELSE IF /\ S[interface_type + 1].variant = "Interface"
            /\ S[interface_type + 1].extends # None
        THEN Ret([S EXCEPT ![interface_type + 1].extends = Some(extends)], None)
    ELSE Ret(S, None)

\* a slip: the two arguments are taken in the other order
update_alias_swapped(S, alias_type, to) ==
    IF index_out_of_bounds(S, to) THEN Panic(S, "index out of bounds")
    ELSE IF S[to + 1].variant = "AliasTo"
        THEN Ret([S EXCEPT ![to + 1].to = alias_type], None)
    ELSE Ret(S, None)

update_alias(S, alias_type, to) ==
    IF index_out_of_bounds(S, alias_type) THEN Panic(S, "index out of bounds")
    ELSE IF S[alias_type + 1].variant = "AliasTo"
        THEN Ret([S EXCEPT ![alias_type + 1].to = to], None)
    ELSE Ret(S, None)

update_generic_extends(S, generic, to) ==
    IF index_out_of_bounds(S, generic) THEN Panic(S, "index out of bounds")
    ELSE IF is_structure_generic(S[generic + 1])
        THEN Ret([S EXCEPT ![generic + 1].nature.extends = to], None)
    ELSE Ret(S, None)

---------------------------------------------------------------------------
(* The regress crate, as far as RegExp uses it.  A string is the sequence  *)
(* of its characters.  The patterns are the ones made of literal           *)
(* characters, capturing groups "(..)", named groups "(?<name>..)" and the  *)
(* greedy optional "?"; of the flags only icase matters to them.           *)

Min(set) == CHOOSE x \in set : \A y \in set : x <= y

Max(set) == CHOOSE x \in set : \A y \in set : x >= y

Ok(value) == [ok |-> value]

Err(error) == [err |-> error]

is_err(r) == "err" \in DOMAIN r

\* Flags::default()
Flags_default ==
    [icase |-> FALSE, multiline |-> FALSE, dot_all |-> FALSE, unicode |-> FALSE,
     unicode_sets |-> FALSE, no_opt |-> FALSE]

\* the nodes of the intermediate representation
Node_Char(c) == [node |-> "Char", c |-> c]

Node_Cat(items) == [node |-> "Cat", items |-> items]

Node_CaptureGroup(body, group, name) ==
    [node |-> "CaptureGroup", body |-> body, group |-> group, name |-> name]

Node_Optional(body) == [node |-> "Optional", body |-> body]

\* what the parser has read up to position pos: a node, the number of capturing
\* groups opened and the indices of the named ones
Parsed(node, pos, groups, names) ==
    [node |-> node, pos |-> pos, groups |-> groups, names |-> names]

\* the position of the first c in s at or after `from`, 0 when there is none
position_from(s, c, from) ==
    LET hits == { i \in from .. Len(s) : s[i] = c }
    IN  IF hits = {} THEN 0 ELSE Min(hits)

RECURSIVE parse_items(_, _, _, _, _)

\* one atom: a literal character or a group with its body
parse_atom(p, pos, groups, names) ==
    IF p[pos] # "(" THEN Parsed(Node_Char(p[pos]), pos + 1, groups, names)
    ELSE LET named == pos + 2 <= Len(p) /\ p[pos + 1] = "?" /\ p[pos + 2] = "<"
             close == IF named THEN position_from(p, ">", pos + 3) ELSE 0
         IN  IF pos + 1 <= Len(p) /\ p[pos + 1] = "?" /\ ~named THEN Err("Invalid group")
             ELSE IF named /\ close = 0 THEN Err("Invalid group name")
             ELSE LET group == groups + 1
                      name == IF named THEN Some(SubSeq(p, pos + 3, close - 1)) ELSE None
                  IN  Let(parse_items(p, IF named THEN close + 1 ELSE pos + 1, <<>>, group,
                                      IF named THEN names \cup { <<name[1], group - 1>> }
                                      ELSE names), LAMBDA body :
                      IF is_err(body) THEN body
                      ELSE IF body.pos > Len(p) THEN Err("Unbalanced parenthesis")
                      ELSE Parsed(Node_CaptureGroup(body.node, group, name), body.pos + 1,
                                  body.groups, body.names))

\* the atoms from pos up to the end of the pattern or to the ")" that closes the group
parse_items(p, pos, items, groups, names) ==
    IF pos > Len(p) \/ p[pos] = ")" THEN Parsed(Node_Cat(items), pos, groups, names)
    ELSE IF p[pos] = "?" THEN Err("Nothing to repeat")
    ELSE Let(parse_atom(p, pos, groups, names), LAMBDA atom :
             IF is_err(atom) THEN atom
             ELSE LET optional == atom.pos <= Len(p) /\ p[atom.pos] = "?"
                  IN  parse_items(p, IF optional THEN atom.pos + 1 ELSE atom.pos,
                                  Append(items, IF optional THEN Node_Optional(atom.node)
                                                ELSE atom.node),
                                  atom.groups, atom.names))

\* backends::try_parse followed by optimize and emit: the compiled regex, or the
\* parser's error with its text
backends_try_parse(pattern, flags) ==
    Let(parse_items(pattern, 1, <<>>, 0, {}), LAMBDA parsed :
        IF is_err(parsed) THEN parsed
        ELSE IF parsed.pos <= Len(pattern) THEN Err("Unbalanced parenthesis")
        ELSE Ok([node |-> parsed.node, groups |-> parsed.groups,
                 named_group_indices |-> parsed.names, flags |-> flags]))

\* case folding of the letters the texts are made of
fold(c) == IF c = "A" THEN "a" ELSE IF c = "B" THEN "b" ELSE c

\* the capturing groups inside a node
RECURSIVE groups_in(_)
groups_in(node) ==
    CASE node.node = "Char" -> {}
      [] node.node = "Cat" -> UNION { groups_in(node.items[i]) : i \in 1 .. Len(node.items) }
      [] node.node = "CaptureGroup" -> {node.group} \cup groups_in(node.body)
      [] node.node = "Optional" -> groups_in(node.body)

\* the ranges of n groups of which none has captured
RECURSIVE no_captures(_)
no_captures(n) == IF n = 0 THEN <<>> ELSE Append(no_captures(n - 1), None)

\* the first n captures, those of the groups in `reset` forgotten
RECURSIVE without(_, _, _)
without(captures, reset, n) ==
    IF n = 0 THEN <<>>
    ELSE Append(without(captures, reset, n - 1), IF n \in reset THEN None ELSE captures[n])

RECURSIVE match_node(_, _, _, _)
RECURSIVE match_items(_, _, _, _)
RECURSIVE match_each(_, _, _, _)

\* the ways `node` matches `text` from the state st (a position and the ranges
\* captured so far), the preferred way first
match_node(node, text, st, icase) ==
    CASE node.node = "Char" ->
            IF /\ st.pos <= Len(text)
               /\ IF icase THEN fold(text[st.pos]) = fold(node.c) ELSE text[st.pos] = node.c
            THEN << [st EXCEPT !.pos = @ + 1] >>
            ELSE <<>>
      [] node.node = "Cat" -> match_items(node.items, text, st, icase)
      [] node.node = "CaptureGroup" ->
            Let(match_node(node.body, text, st, icase), LAMBDA inner :
                [k \in 1 .. Len(inner) |->
                    [inner[k] EXCEPT !.captures[node.group] =
                                            Some(<<st.pos - 1, inner[k].pos - 1>>)]])
      [] node.node = "Optional" ->
            match_node(node.body, text, st, icase) \o
            << [st EXCEPT !.captures = without(@, groups_in(node.body), Len(@))] >>

match_items(items, text, st, icase) ==
    IF items = <<>> THEN <<st>>
    ELSE match_each(Tail(items), text, match_node(Head(items), text, st, icase), icase)

match_each(items, text, sts, icase) ==
    IF sts = <<>> THEN <<>>
    ELSE match_items(items, text, Head(sts), icase) \o match_each(items, text, Tail(sts), icase)

\* Regex::find: the leftmost match, as the range of the whole match and the range
\* of every capturing group (None for a group that took no part), ranges being
\* 0-based and half-open; None when the text has no match
Regex_find(re, text) ==
    LET attempt(start) ==
            match_node(re.node, text,
                       [pos |-> start, captures |-> no_captures(re.groups)],
                       re.flags.icase)
        starts == { start \in 1 .. (Len(text) + 1) : attempt(start) # <<>> }
    IN  Let(starts, LAMBDA from :
        IF from = {} THEN None
        ELSE Let(Min(from), LAMBDA start :
             Let(attempt(start)[1], LAMBDA found :
                 Some([range |-> <<start - 1, found.pos - 1>>,
                       captures |-> found.captures,
                       named_group_indices |-> re.named_group_indices]))))

\* Match::start
Match_start(match_) == match_.range[1]

\* Match::groups: the whole match, then the capturing groups
Match_groups(match_) == <<Some(match_.range)>> \o match_.captures

\* Match::named_groups, the names taken in the order `names`
Match_named_groups(match_, names) ==
    [k \in 1 .. Len(names) |->
        <<names[k],
          match_.captures[(CHOOSE e \in match_.named_group_indices : e[1] = names[k])[2] + 1]>>]

\* pattern[range]
slice(text, range) == SubSeq(text, range[1] + 1, range[2])

---------------------------------------------------------------------------
(* features/regexp.rs: RegExp *)

\* the flag characters RegExp::new knows
KnownFlags == {"d", "g", "i", "m", "s", "u", "v", "y"}

\* the flags that are recognised and not supported
UnsupportedFlags == {"d", "g", "y"}

\* a slip: the whole match is not counted among the groups
RegExp_new_capturing_groups_only(pattern, flag_options) ==
    LET source == IF flag_options # None
                  THEN <<"/">> \o pattern \o <<"/">> \o flag_options[1]
                  ELSE <<"/">> \o pattern \o <<"/">>
        chars == IF flag_options # None THEN flag_options[1] ELSE <<>>
        given == { chars[i] : i \in 1 .. Len(chars) }
        flags == [Flags_default EXCEPT !.icase = "i" \in given,
                                       !.multiline = "m" \in given,
                                       !.dot_all = "s" \in given,
                                       !.unicode = "u" \in given,
                                       !.unicode_sets = "v" \in given]
    IN  IF ~ (given \subseteq KnownFlags) THEN [panic |-> "Unknown flag"]
        ELSE Let(backends_try_parse(pattern, flags), LAMBDA compiled_regex :
             IF is_err(compiled_regex) THEN Err(compiled_regex.err)
             ELSE Ok([source |-> source, re |-> compiled_regex.ok,
                      groups |-> compiled_regex.ok.groups,
                      named_group_indices |-> compiled_regex.ok.named_group_indices,
                      flags_unsupported |-> given \cap UnsupportedFlags # {},
                      used |-> FALSE]))

\* Ok(the RegExp), Err(the text of the parser's error), or the panic on a flag that
\* is not known: the flags are gone through before the pattern is parsed
RegExp_new(pattern, flag_options) ==
    LET source == IF flag_options # None
                  THEN <<"/">> \o pattern \o <<"/">> \o flag_options[1]
                  ELSE <<"/">> \o pattern \o <<"/">>
        chars == IF flag_options # None THEN flag_options[1] ELSE <<>>
        given == { chars[i] : i \in 1 .. Len(chars) }
        flags == [Flags_default EXCEPT !.icase = "i" \in given,
                                       !.multiline = "m" \in given,
                                       !.dot_all = "s" \in given,
                                       !.unicode = "u" \in given,
                                       !.unicode_sets = "v" \in given]
    IN  IF ~ (given \subseteq KnownFlags) THEN [panic |-> "Unknown flag"]
        ELSE Let(backends_try_parse(pattern, flags), LAMBDA compiled_regex :
             IF is_err(compiled_regex) THEN Err(compiled_regex.err)
             ELSE Ok([source |-> source, re |-> compiled_regex.ok,
                      groups |-> compiled_regex.ok.groups + 1,
                      named_group_indices |-> compiled_regex.ok.named_group_indices,
                      flags_unsupported |-> given \cap UnsupportedFlags # {},
                      used |-> FALSE]))

\* <String as BinarySerializable>: the length, then the characters
String_serialize(string) == <<Len(string)>> \o string

String_deserialize(buf) == SubSeq(buf, 2, 1 + buf[1])

\* <RegExp as BinarySerializable>::serialize
RegExp_serialize(regexp) == String_serialize(regexp.source)

\* a slip: the split is made at the first delimiter
split_once(string, delimiter) ==
    LET at == { i \in 1 .. Len(string) : string[i] = delimiter }
    IN  IF at = {} THEN None
        ELSE Some(<<SubSeq(string, 1, Min(at) - 1), SubSeq(string, Min(at) + 1, Len(string))>>)

\* str::rsplit_once: what is before and after the last delimiter
rsplit_once(string, delimiter) ==
    LET at == { i \in 1 .. Len(string) : string[i] = delimiter }
    IN  IF at = {} THEN None
        ELSE Some(<<SubSeq(string, 1, Max(at) - 1), SubSeq(string, Max(at) + 1, Len(string))>>)

\* <RegExp as BinarySerializable>::deserialize: the RegExp, or the panic of an unwrap
RegExp_deserialize(buf) ==
    Let(String_deserialize(buf), LAMBDA source :
    Let(rsplit_once(Tail(source), "/"), LAMBDA split :
        IF split = None THEN [panic |-> "called Option::unwrap() on a None value"]
        ELSE LET pattern == split[1][1]
                 flags == IF split[1][2] = <<>> THEN None ELSE Some(split[1][2])
             IN  Let(RegExp_new(pattern, flags), LAMBDA regexp :
                 IF panicked(regexp) THEN regexp
                 ELSE IF is_err(regexp)
                     THEN [panic |-> "called Result::unwrap() on an Err value"]
                 ELSE regexp.ok)))

\* Type::SpecialObject(SpecialObject::RegularExpression(regexp))
Type_SpecialObject_RegularExpression(regexp) ==
    [variant |-> "SpecialObject", special |-> "RegularExpression", regexp |-> regexp]

\* a slip: a pattern that does not parse leaves a descriptor behind
new_regexp_registering_first(S, pattern, flags) ==
    Let(RegExp_new(pattern, Some(flags)), LAMBDA regexp :
        IF panicked(regexp) THEN Panic(S, regexp.panic)
        ELSE IF is_err(regexp)
            THEN [types |-> Append(S, Type_SpecialObject_Null), err |-> regexp.err]
        ELSE register_type(S, Type_SpecialObject_RegularExpression(regexp.ok)))

\* Ok(id) is Ret(the vector, id); Err(text) leaves the vector as it was.
\* The flags come as a &str, which RegExp::new is given as Some(flags).
new_regexp(S, pattern, flags) ==
    Let(RegExp_new(pattern, Some(flags)), LAMBDA regexp :
        IF panicked(regexp) THEN Panic(S, regexp.panic)
        ELSE IF is_err(regexp) THEN [types |-> S, err |-> regexp.err]
        ELSE register_type(S, Type_SpecialObject_RegularExpression(regexp.ok)))

---------------------------------------------------------------------------
(* Objects: ObjectBuilder and the properties Environment.info keeps.  A    *)
(* call that works on the store and on the information yields the record   *)
(* [types, info] with the id it returns, or with the panic that ended it.  *)

\* Type::Object(ObjectNature::RealDeal): an object whose properties are in the information
Type_Object_RealDeal == [variant |-> "Object", nature |-> "RealDeal"]

Publicity_Public == "Public"

PropertyKey_String(string) == [key |-> "String", string |-> string]

PropertyValue_Value(ty) == [value |-> "Value", ty |-> ty]

Digits == <<"0", "1", "2", "3", "4", "5", "6", "7", "8", "9">>

\* usize::to_string
RECURSIVE to_string(_)
to_string(n) ==
    IF n < 10 THEN <<Digits[n + 1]>>
    ELSE to_string(n \div 10) \o <<Digits[(n % 10) + 1]>>

PropertyKey_from_usize(a) == PropertyKey_String(to_string(a))

\* the names of the properties of a match
key_input == <<"i", "n", "p", "u", "t">>

key_index == <<"i", "n", "d", "e", "x">>

key_groups == <<"g", "r", "o", "u", "p", "s">>

key_length == <<"l", "e", "n", "g", "t", "h">>

Returning(S, information, id) == [types |-> S, info |-> information, id |-> id]

Panicking(S, information, message) == [types |-> S, info |-> information, panic |-> message]

\* ObjectBuilder::new: registers the object and records its prototype
ObjectBuilder_new(prototype, S, information) ==
    LET r == register_type(S, Type_Object_RealDeal)
    IN  IF panicked(r) THEN Panicking(r.types, information, r.panic)
        ELSE Returning(r.types,
                       IF prototype = None THEN information
                       ELSE [information EXCEPT
                                !.prototypes = insert(@, r.id, prototype[1])],
                       r.id)

\* the properties registered on an object, in the order they were registered
properties_of(information, object) ==
    LET entries == { e \in information.current_properties : e[1] = object }
    IN  IF entries = {} THEN <<>> ELSE (CHOOSE e \in entries : TRUE)[2]

\* ObjectBuilder::append: the information with one more property on the object
ObjectBuilder_append(information, object, publicity, under, value) ==
    [information EXCEPT
        !.current_properties =
            insert(@, object,
                   Append(properties_of(information, object), <<publicity, under, value>>))]

\* ObjectBuilder::build_object
ObjectBuilder_build_object(object) == object

---------------------------------------------------------------------------
(* RegExp::exec.  `names` is the order in which the map of the named       *)
(* groups is iterated, which a HashMap leaves open.                        *)

\* the loop over match_.groups().enumerate(), from idx on
RECURSIVE exec_constant_groups(_, _, _, _, _, _)
exec_constant_groups(S, information, object, pattern, groups, idx) ==
    IF idx >= Len(groups) THEN Returning(S, information, object)
    ELSE LET group == groups[idx + 1]
         IN  IF group = None THEN Panicking(S, information, "not yet implemented")
             ELSE LET value == new_constant_type(S, Constant_String(slice(pattern, group[1])))
                  IN  IF panicked(value) THEN Panicking(value.types, information, value.panic)
                      ELSE exec_constant_groups(
                               value.types,
                               ObjectBuilder_append(information, object, Publicity_Public,
                                                    PropertyKey_from_usize(idx),
                                                    PropertyValue_Value(value.id)),
                               object, pattern, groups, idx + 1)

\* the loop over match_.named_groups(), from the k-th on
RECURSIVE exec_constant_named_groups(_, _, _, _, _, _)
exec_constant_named_groups(S, information, object, pattern, named_groups, k) ==
    IF k > Len(named_groups) THEN Returning(S, information, object)
    ELSE LET name == named_groups[k][1]
             group == named_groups[k][2]
         IN  IF group = None THEN Panicking(S, information, "not yet implemented")
             ELSE LET value == new_constant_type(S, Constant_String(slice(pattern, group[1])))
                  IN  IF panicked(value) THEN Panicking(value.types, information, value.panic)
                      ELSE exec_constant_named_groups(
                               value.types,
                               ObjectBuilder_append(information, object, Publicity_Public,
                                                    PropertyKey_String(name),
                                                    PropertyValue_Value(value.id)),
                               object, pattern, named_groups, k + 1)

exec_constant(regexp, pattern, pattern_type_id, S, information, names) ==
    Let(ObjectBuilder_new(Some(TypeId_ARRAY_TYPE), S, information), LAMBDA object :
    IF panicked(object) THEN object
    ELSE
    Let(ObjectBuilder_append(object.info, object.id, Publicity_Public,
                             PropertyKey_String(key_input),
                             PropertyValue_Value(pattern_type_id)), LAMBDA input :
    Let(Regex_find(regexp.re, pattern), LAMBDA found :
    IF found = None THEN Returning(object.types, input, TypeId_NULL_TYPE)
    ELSE
    Let(found[1], LAMBDA match_ :
    Let(new_constant_type(object.types,
                          Constant_Number(f64_from(Match_start(match_)))), LAMBDA index :
    IF panicked(index) THEN Panicking(index.types, input, index.panic)
    ELSE
    Let(exec_constant_groups(
            index.types,
            ObjectBuilder_append(input, object.id, Publicity_Public,
                                 PropertyKey_String(key_index),
                                 PropertyValue_Value(index.id)),
            object.id, pattern, Match_groups(match_), 0), LAMBDA positional :
    IF panicked(positional) THEN positional
    ELSE
    Let(ObjectBuilder_new(Some(TypeId_NULL_TYPE), positional.types, positional.info),
        LAMBDA named_groups_object :
    IF panicked(named_groups_object) THEN named_groups_object
    ELSE
    Let(exec_constant_named_groups(
            named_groups_object.types, named_groups_object.info,
            named_groups_object.id, pattern,
            Match_named_groups(match_, names), 1), LAMBDA named :
    IF panicked(named) THEN named
    ELSE
    Let(new_constant_type(named.types, Constant_Number(f64_from(regexp.groups))),
        LAMBDA length :
    IF panicked(length)
    THEN Panicking(length.types, named.info, length.panic)
    ELSE Returning(
             length.types,
             ObjectBuilder_append(
                 ObjectBuilder_append(
                     named.info, object.id, Publicity_Public,
                     PropertyKey_String(key_groups),
                     PropertyValue_Value(ObjectBuilder_build_object(named.id))),
                 object.id, Publicity_Public,
                 PropertyKey_String(key_length),
                 PropertyValue_Value(length.id)),
             ObjectBuilder_build_object(object.id)))))))))))

\* the loop `for idx in 0..self.groups`, from idx on
RECURSIVE exec_variable_groups(_, _, _, _)
exec_variable_groups(information, object, groups, idx) ==
    IF idx >= groups THEN information
    ELSE exec_variable_groups(
             ObjectBuilder_append(information, object, Publicity_Public,
                                  PropertyKey_from_usize(idx),
                                  PropertyValue_Value(TypeId_STRING_TYPE)),
             object, groups, idx + 1)

\* the loop over self.named_group_indices.iter(), from the k-th name on
RECURSIVE exec_variable_named_groups(_, _, _, _)
exec_variable_named_groups(information, object, names, k) ==
    IF k > Len(names) THEN information
    ELSE exec_variable_named_groups(
             ObjectBuilder_append(information, object, Publicity_Public,
                                  PropertyKey_String(names[k]),
                                  PropertyValue_Value(TypeId_STRING_TYPE)),
             object, names, k + 1)

exec_variable(regexp, S, information, names) ==
    Let(ObjectBuilder_new(Some(TypeId_ARRAY_TYPE), S, information), LAMBDA object :
    IF panicked(object) THEN object
    ELSE
    Let(ObjectBuilder_append(object.info, object.id, Publicity_Public,
                             PropertyKey_String(key_input),
                             PropertyValue_Value(TypeId_STRING_TYPE)), LAMBDA input :
    Let(ObjectBuilder_append(input, object.id, Publicity_Public,
                             PropertyKey_String(key_index),
                             PropertyValue_Value(TypeId_NUMBER_TYPE)), LAMBDA index :
    Let(exec_variable_groups(index, object.id, regexp.groups, 0), LAMBDA positional :
    Let(ObjectBuilder_new(Some(TypeId_NULL_TYPE), object.types, positional),
        LAMBDA named_groups_object :
    IF panicked(named_groups_object) THEN named_groups_object
    ELSE
    Let(exec_variable_named_groups(named_groups_object.info,
                                   named_groups_object.id, names, 1), LAMBDA named :
    Let(ObjectBuilder_append(
            named, object.id, Publicity_Public,
            PropertyKey_String(key_groups),
            PropertyValue_Value(ObjectBuilder_build_object(named_groups_object.id))),
        LAMBDA groups :
    Let(new_constant_type(named_groups_object.types,
                          Constant_Number(f64_from(regexp.groups))), LAMBDA length :
    IF panicked(length) THEN Panicking(length.types, groups, length.panic)
    ELSE
    Let(ObjectBuilder_append(groups, object.id, Publicity_Public,
                             PropertyKey_String(key_length),
                             PropertyValue_Value(length.id)), LAMBDA information_after :
    Let(new_or_type(length.types, ObjectBuilder_build_object(object.id),
                    TypeId_NULL_TYPE), LAMBDA or :
    IF panicked(or) THEN Panicking(or.types, information_after, or.panic)
    ELSE Returning(or.types, information_after, or.id)))))))))))

\* a slip: the flags do not count in the choice
exec_whatever_the_flags(regexp, pattern_type_id, S, information, names) ==
    LET pattern_type == get_type_by_id(S, pattern_type_id)
    IN  IF /\ pattern_type.variant = "Constant"
           /\ pattern_type.constant.constant = "String"
        THEN exec_constant(regexp, pattern_type.constant.string, pattern_type_id, S,
                           information, names)
        ELSE exec_variable(regexp, S, information, names)

exec(regexp, pattern_type_id, S, information, names) ==
    LET pattern_type == get_type_by_id(S, pattern_type_id)
    IN  IF /\ ~regexp.flags_unsupported
           /\ pattern_type.variant = "Constant"
           /\ pattern_type.constant.constant = "String"
        THEN exec_constant(regexp, pattern_type.constant.string, pattern_type_id, S,
                           information, names)
        ELSE exec_variable(regexp, S, information, names)

---------------------------------------------------------------------------
(* The inputs of the calls *)

\* the ids registered since construction, and all the ids of a store
UserIds(S) == TypeId_INTERNAL_TYPE_COUNT .. (Len(S) - 1)

AllIds(S) == 0 .. (Len(S) - 1)

\* the registered interfaces
Interfaces(S) == { id \in UserIds(S) : get_type_by_id(S, id).variant = "Interface" }

\* the ids the calls are made with: some built-in ones and the ids registered so far
InputIds(S) ==
    {TypeId_NEVER_TYPE, TypeId_TRUE, TypeId_FALSE} \cup UserIds(S)

\* the ids the conditions and the branches of the conditional types are drawn from
ConditionalInputIds(S) == {TypeId_TRUE, TypeId_FALSE} \cup UserIds(S)

\* the ids the unions of the union-only specification are made of
UnionInputIds(S) == {TypeId_NEVER_TYPE} \cup UserIds(S)

\* the ids the intersections of the intersection specification are made of
IntersectionInputIds(S) == {TypeId_STRING_OR_NUMBER, TypeId_TRUE} \cup UserIds(S)

\* the sequences new_or_type_from_iterator is called with: of up to three ids
IteratorInputs(ids) ==
    {<<>>} \cup { <<a>> : a \in ids } \cup { <<a, b>> : a \in ids, b \in ids }
           \cup { <<a, b, c>> : a \in ids, b \in ids, c \in ids }

\* the descriptors registered directly
RegisterInputs == { Type_Interface(name, None, None) : name \in {"A", "B"} }

\* the one registered directly in the specifications of one family of constructors
InterfaceInputs == { Type_Interface("A", None, None) }

\* what the mutation specification registers directly: an interface that extends
\* something, an alias and a generic, each to be resolved later
MutationRegisterInputs ==
    { Type_Interface("I", None, Some(TypeId_OBJECT_TYPE)),
      Type_AliasTo(TypeId_ANY_TYPE, "X", None),
      Type_RootPolyType(PolyNature_StructureGeneric("U", TypeId_ANY_TYPE)) }

\* the descriptors the mutations are addressed to: an interface that extends
\* nothing (any), a class (string) and what was registered
MutationTargets(S) == {TypeId_ANY_TYPE, TypeId_STRING_TYPE} \cup UserIds(S)

\* the ids the mutations write
MutationValues(S) == {TypeId_NUMBER_TYPE} \cup UserIds(S)

\* the restriction the narrowing specification registers: GreaterThan<0>
NarrowedRegisterInputs ==
    { Type_PartiallyAppliedGenerics(
          TypeId_GREATER_THAN, ExplicitRestrictions(TypeId_NUMBER_GENERIC, TypeId_ZERO)) }

\* what is narrowed: number and what was registered
NarrowedFromIds(S) == {TypeId_NUMBER_TYPE} \cup UserIds(S)

\* what it is narrowed to
NarrowedToIds(S) == {TypeId_NOT_NOT_A_NUMBER, TypeId_ONE} \cup UserIds(S)

\* the id that was registered last, which is what its mutations write
LatestIds(S) == UserIds(S) \cap {Len(S) - 1}

\* what the specification of the constructors registers directly: an interface
\* that extends something
ConstructorRegisterInputs == { Type_Interface("I", None, Some(TypeId_OBJECT_TYPE)) }

\* the ids its constructors are called with: a constant, the alias void and what
\* was registered last
ConstructorInputIds(S) == {TypeId_TRUE, TypeId_VOID_TYPE} \cup LatestIds(S)

\* the conditions and the results of its conditional types
ConstructorConditionIds(S) == {TypeId_TRUE, TypeId_FALSE} \cup LatestIds(S)

\* the constraints, variable ids and names new_function_parameter is called with
ParameterConstraintInputs == {TypeId_ANY_TYPE, TypeId_NEW_TARGET_ARG}

VariableIdInputs == { <<0, 4>> }

ParameterNameInputs == { "x" }

\* the constants new_constant_type is called with
ConstantInputs ==
    { Constant_String(<<>>), Constant_String(<<"a">>),
      Constant_Number(f64_from(0)), Constant_Number(f64_NEG_ZERO),
      Constant_Number(f64_from(1)), Constant_Number(f64_from(2)),
      Constant_Number(f64_INFINITY), Constant_Number(f64_NEG_INFINITY),
      Constant_Number(f64_NAN),
      Constant_Boolean(TRUE), Constant_Boolean(FALSE),
      Constant_Undefined }

\* the patterns new_regexp is called with: a literal, two groups of which the second
\* is optional, a named group, one with the delimiter in it, the empty one, and one
\* that does not parse
PatternInputs ==
    { <<"a">>,
      <<"(", "a", ")", "(", "b", ")", "?">>,
      <<"(", "?", "<", "n", ">", "a", ")">>,
      <<"a", "/", "b">>,
      <<>>,
      <<"(", "a">> }

\* the flags: none, one that is not supported, one that is, one that is not known
FlagInputs == { <<>>, <<"g">>, <<"i">>, <<"x">> }

\* the texts of the string constants exec is called on
TextInputs == { <<"a">>, <<"b">>, <<"A">>, <<"b", "b", "a", "b">> }

\* the registered regular expressions
RegularExpressions(S) ==
    { id \in UserIds(S) : /\ get_type_by_id(S, id).variant = "SpecialObject"
                          /\ get_type_by_id(S, id).special = "RegularExpression" }

\* the registered constants
Constants(S) == { id \in UserIds(S) : get_type_by_id(S, id).variant = "Constant" }

\* the operands of exec: the string type, a number and the registered constants
ExecOperandIds(S) == {TypeId_STRING_TYPE, TypeId_ONE} \cup Constants(S)

\* the orders in which a map of named groups can be iterated
Orders(named_group_indices) ==
    LET names == { e[1] : e \in named_group_indices }
    IN  { order \in [1 .. Cardinality(names) -> names] :
            \A i, j \in 1 .. Cardinality(names) : order[i] = order[j] => i = j }

---------------------------------------------------------------------------
(* The state machine: one action per call on the store *)

Init ==
    /\ types = default_types
    /\ lookup_generic_map = default_lookup_generic_map
    /\ parameter_names = {}
    /\ functions = {}
    /\ called_functions = {}
    /\ closure_counter = 0
    /\ info = LocalInformation_default
    /\ panic = None
    /\ last = [op |-> "default", args |-> <<>>, ret |-> 0, before |-> Len(default_types)]

\* the call `op(args)` made on the store, with result r, registering within `bound`
\* a panic ends the program: the call returns nothing and no other call follows
Returned(op, args, r, bound) ==
    /\ panic = None
    /\ Len(r.types) <= TypeId_INTERNAL_TYPE_COUNT + bound
    /\ types' = r.types
    /\ panic' = IF panicked(r) THEN Some(r.panic) ELSE None
    /\ last' = [op |-> op, args |-> args, ret |-> IF panicked(r) THEN None ELSE r.id,
                before |-> Len(types)]

\* a call that touches nothing but the vector of types
Call(op, args, r, bound) ==
    /\ Returned(op, args, r, bound)
    /\ UNCHANGED <<auxiliary, info>>

RegisterType(inputs, bound) ==
    \E ty \in inputs :
        Call("register_type", <<ty>>, register_type(types, ty), bound)

NewConstantType(bound) ==
    \E constant \in ConstantInputs :
        Call("new_constant_type", <<constant>>, new_constant_type(types, constant), bound)

NewOrType(ids, bound) ==
    \E lhs \in ids, rhs \in ids :
        Call("new_or_type", <<lhs, rhs>>, new_or_type(types, lhs, rhs), bound)

NewOrTypeFromIterator(ids, bound) ==
    \E iter \in IteratorInputs(ids) :
        Call("new_or_type_from_iterator", iter, new_or_type_from_iterator(types, iter), bound)

NewAndType(ids, bound) ==
    \E lhs \in ids, rhs \in ids :
        Call("new_and_type", <<lhs, rhs>>, new_and_type(types, lhs, rhs), bound)

NewConditionalType(ids, bound) ==
    \E condition \in ids, truthy_result \in ids, otherwise_result \in ids :
        Call("new_conditional_type", <<condition, truthy_result, otherwise_result>>,
             new_conditional_type(types, condition, truthy_result, otherwise_result), bound)

NewLogicalNegationType(ids, bound) ==
    \E condition \in ids :
        Call("new_logical_negation_type", <<condition>>,
             new_logical_negation_type(types, condition), bound)

NewFunctionParameter(bound) ==
    \E parameter_constraint \in ParameterConstraintInputs,
       variable_id \in VariableIdInputs, name \in ParameterNameInputs :
        LET r == new_function_parameter(types, parameter_names, parameter_constraint,
                                        variable_id, name)
        IN  /\ Returned("new_function_parameter",
                        <<parameter_constraint, variable_id, name>>, r, bound)
            /\ parameter_names' = r.parameter_names
            /\ UNCHANGED <<lookup_generic_map, functions, called_functions,
                           closure_counter, info>>

NewNarrowed(froms, tos, bound) ==
    \E from \in froms, narrowed_to \in tos :
        Call("new_narrowed", <<from, narrowed_to>>,
             new_narrowed(types, from, narrowed_to), bound)

ModifyInterfaceTypeParameterConstraint(targets, values, bound) ==
    \E ty \in targets, constraint \in values :
        Call("modify_interface_type_parameter_constraint", <<ty, constraint>>,
             modify_interface_type_parameter_constraint(types, ty, constraint), bound)

SetInferredConstraint(targets, values, bound) ==
    \E ty \in targets, constraint \in values :
        Call("_set_inferred_constraint", <<ty, constraint>>,
             set_inferred_constraint(types, ty, constraint), bound)

SetExtendsOnInterface(targets, values, bound) ==
    \E interface_type \in targets, extends \in values :
        Call("set_extends_on_interface", <<interface_type, extends>>,
             set_extends_on_interface(types, interface_type, extends), bound)

UpdateAlias(targets, values, bound) ==
    \E alias_type \in targets, to \in values :
        Call("update_alias", <<alias_type, to>>, update_alias(types, alias_type, to), bound)

UpdateGenericExtends(targets, values, bound) ==
    \E generic \in targets, to \in values :
        Call("update_generic_extends", <<generic, to>>,
             update_generic_extends(types, generic, to), bound)

\* new_regexp returns a Result: Ok(id) or Err(text)
NewRegexp(bound) ==
    \E pattern \in PatternInputs, flags \in FlagInputs :
        Let(new_regexp(types, pattern, flags), LAMBDA r :
            Call("new_regexp", <<pattern, flags>>,
                 IF panicked(r) THEN r
                 ELSE Ret(r.types, IF is_err(r) THEN Err(r.err) ELSE Ok(r.id)),
                 bound))

NewStringConstant(bound) ==
    \E text \in TextInputs :
        Call("new_constant_type", <<Constant_String(text)>>,
             new_constant_type(types, Constant_String(text)), bound)

\* exec of a registered regular expression on an operand, with the environment's information
Exec(bound) ==
    \E regexp_id \in RegularExpressions(types), pattern_type_id \in ExecOperandIds(types) :
        \E names \in Orders(get_type_by_id(types, regexp_id).regexp.named_group_indices) :
            Let(exec(get_type_by_id(types, regexp_id).regexp, pattern_type_id, types,
                     info, names), LAMBDA r :
                /\ Returned("exec", <<regexp_id, pattern_type_id>>, r, bound)
                /\ info' = r.info
                /\ UNCHANGED auxiliary)

\* a registered regular expression is serialized and read back
Deserialize ==
    \E regexp_id \in RegularExpressions(types) :
        Let(RegExp_serialize(get_type_by_id(types, regexp_id).regexp), LAMBDA buf :
        Let(RegExp_deserialize(buf), LAMBDA r :
            /\ panic = None
            /\ panic' = IF panicked(r) THEN Some(r.panic) ELSE None
            /\ last' = [op |-> "deserialize", args |-> <<regexp_id, buf>>,
                        ret |-> IF panicked(r) THEN None ELSE Some(r), before |-> Len(types)]
            /\ UNCHANGED <<types, auxiliary, info>>))

Next ==
    \/ RegisterType(RegisterInputs, MaxUserTypes)
    \/ NewConstantType(MaxUserTypes)
    \/ NewOrType(InputIds(types), MaxUserTypes)
    \/ NewAndType(InputIds(types), MaxUserTypes)
    \/ NewConditionalType(ConditionalInputIds(types), MaxUserTypes)
    \/ NewLogicalNegationType(InputIds(types), MaxUserTypes)

Spec == Init /\ [][Next]_vars

\* the unions alone: interfaces are registered and united, by pairs and by sequences
NextUnion ==
    \/ RegisterType(InterfaceInputs, MaxUnionTypes)
    \/ NewOrType(UnionInputIds(types), MaxUnionTypes)
    \/ NewOrTypeFromIterator(Interfaces(types), MaxUnionTypes)

SpecUnion == Init /\ [][NextUnion]_vars

\* the intersections: interfaces are registered, united and intersected
NextIntersection ==
    \/ RegisterType(InterfaceInputs, MaxIntersectionTypes)
    \/ NewOrType(IntersectionInputIds(types), MaxIntersectionTypes)
    \/ NewAndType(IntersectionInputIds(types), MaxIntersectionTypes)

SpecIntersection == Init /\ [][NextIntersection]_vars

\* the controlled mutations: placeholders are registered, united and resolved
NextMutation ==
    \/ RegisterType(MutationRegisterInputs, MaxMutationTypes)
    \/ NewFunctionParameter(MaxMutationTypes)
    \/ NewOrType({TypeId_STRING_OR_NUMBER} \cup UserIds(types), MaxMutationTypes)
    \/ ModifyInterfaceTypeParameterConstraint(MutationTargets(types), MutationValues(types),
                                              MaxMutationTypes)
    \/ SetInferredConstraint(MutationTargets(types), MutationValues(types), MaxMutationTypes)
    \/ SetExtendsOnInterface(MutationTargets(types), MutationValues(types), MaxMutationTypes)
    \/ UpdateAlias(MutationTargets(types), MutationValues(types), MaxMutationTypes)
    \/ UpdateGenericExtends(MutationTargets(types), MutationValues(types), MaxMutationTypes)

SpecMutation == Init /\ [][NextMutation]_vars

\* regular expressions: they are compiled, run on string constants and on other
\* operands, and serialized
NextRegExp ==
    \/ NewRegexp(MaxRegExpOperands)
    \/ NewStringConstant(MaxRegExpOperands)
    \/ Exec(MaxRegExpTypes)
    \/ Deserialize

SpecRegExp == Init /\ [][NextRegExp]_vars

\* the narrowings: a restriction is applied (GreaterThan<0>), and types are narrowed
\* to it, to the built-in Not<NaN>, to a constant and to what was registered
NextNarrowed ==
    \/ RegisterType(NarrowedRegisterInputs, MaxNarrowedTypes)
    \/ NewNarrowed(NarrowedFromIds(types), NarrowedToIds(types), MaxNarrowedTypes)

SpecNarrowed == Init /\ [][NextNarrowed]_vars

\* the constructors on a store the controlled mutations have written to: an
\* interface is registered, types are united, intersected, made conditional,
\* negated and narrowed, and the interface, the alias void and the generic T are
\* pointed at what was registered last
NextConstructors ==
    \/ RegisterType(ConstructorRegisterInputs, MaxConstructorTypes)
    \/ NewOrType(ConstructorInputIds(types), MaxConstructorTypes)
    \/ NewAndType(ConstructorInputIds(types), MaxConstructorTypes)
    \/ NewConditionalType(ConstructorConditionIds(types), MaxConstructorTypes)
    \/ NewLogicalNegationType(ConstructorInputIds(types), MaxConstructorTypes)
    \/ NewNarrowed(ConstructorInputIds(types), ConstructorInputIds(types),
                   MaxConstructorTypes)
    \/ SetExtendsOnInterface(Interfaces(types), LatestIds(types), MaxConstructorTypes)
    \/ UpdateAlias({TypeId_VOID_TYPE}, LatestIds(types), MaxConstructorTypes)
    \/ UpdateGenericExtends({TypeId_T_TYPE}, LatestIds(types), MaxConstructorTypes)

SpecConstructors == Init /\ [][NextConstructors]_vars

\* the end of the id range: a store that was filled with interfaces up to the
\* last RangeMargin ids, and is then registered into until nothing more fits
InitRange ==
    /\ types = default_types \o
                 [i \in 1 .. (u16_MAX + 1 - RangeMargin - TypeId_INTERNAL_TYPE_COUNT) |->
                     Type_Interface("A", None, None)]
    /\ lookup_generic_map = default_lookup_generic_map
    /\ parameter_names = {}
    /\ functions = {}
    /\ called_functions = {}
    /\ closure_counter = 0
    /\ info = LocalInformation_default
    /\ panic = None
    /\ last = [op |-> "register_type", args |-> <<Type_Interface("A", None, None)>>,
               ret |-> u16_MAX - RangeMargin, before |-> u16_MAX - RangeMargin]

\* the ids the calls at the end of the range are made with
RangeInputIds(S) == {TypeId_TRUE} \cup ((u16_MAX - RangeMargin) .. (Len(S) - 1))

NextRange ==
    \/ RegisterType(RegisterInputs, u16_MAX)
    \/ NewConstantType(u16_MAX)
    \/ NewOrType(RangeInputIds(types), u16_MAX)

SpecRange == InitRange /\ [][NextRange]_vars

---------------------------------------------------------------------------
(* What the properties are stated with *)

\* the ids the properties over pairs and triples of ids are evaluated at
SampleIds(S) ==
    { TypeId_NEVER_TYPE, TypeId_TRUE, TypeId_FALSE, TypeId_STRING_TYPE,
      TypeId_STRING_OR_NUMBER, TypeId_NUMBER_BUT_NOT_NOT_A_NUMBER } \cup UserIds(S)

\* the ids the properties of the unions are evaluated at: pairs, and triples
UnionSampleIds(S) ==
    { TypeId_NEVER_TYPE, TypeId_TRUE, TypeId_FALSE, TypeId_STRING_TYPE,
      TypeId_STRING_OR_NUMBER } \cup UserIds(S)

UnionMemberIds(S) == {TypeId_STRING_TYPE, TypeId_STRING_OR_NUMBER} \cup UserIds(S)

is_union(S, id) == get_type_by_id(S, id).variant = "Or"

is_constant(S, id) == get_type_by_id(S, id).variant = "Constant"

\* the members of a union, from left to right (of another type: the type itself)
RECURSIVE members(_, _)
members(S, id) ==
    IF is_union(S, id)
    THEN members(S, get_type_by_id(S, id).lhs) \o members(S, get_type_by_id(S, id).rhs)
    ELSE <<id>>

\* how often id occurs in a sequence of ids
occurrences(seq, id) == Cardinality({ i \in 1 .. Len(seq) : seq[i] = id })

\* the last call registered nothing
RegisteredNothing == count_of_types(types) = last.before

\* S continues T: the descriptors of T are still there, under the same ids
Extends(S, T) == Len(S) >= Len(T) /\ SubSeq(S, 1, Len(T)) = T

---------------------------------------------------------------------------
(* C1  Dense identifiers.  A default-constructed store holds exactly        *)
(* INTERNAL_TYPE_COUNT types; the count never goes below that and no call   *)
(* lowers it; register_type returns the count before the call and raises    *)
(* the count by exactly one, leaving the descriptor under the returned id   *)
(* and every earlier descriptor under its own id.                           *)
C1_DenseIdentifiers ==
    /\ last.op = "default" => count_of_types(types) = TypeId_INTERNAL_TYPE_COUNT
    /\ TypeId_INTERNAL_TYPE_COUNT <= last.before
    /\ last.before <= count_of_types(types)
    /\ last.op = "register_type" =>
            /\ last.ret = last.before
            /\ count_of_types(types) = last.before + 1
            /\ get_type_by_id(types, last.ret) = last.args[1]
    /\ \A ty \in RegisterInputs :
            LET r == register_type(types, ty)
            IN  /\ r.id = count_of_types(types)
                /\ count_of_types(r.types) = count_of_types(types) + 1
                /\ get_type_by_id(r.types, r.id) = ty
                /\ Extends(r.types, types)

\* two registrations were made one after the other, the second by register_type
C1_Witness ==
    /\ last.op = "register_type"
    /\ count_of_types(types) = TypeId_INTERNAL_TYPE_COUNT + 2
    /\ last.ret = TypeId_INTERNAL_TYPE_COUNT + 1

---------------------------------------------------------------------------
(* C2  The constant short-circuit table.  In every reachable store the      *)
(* empty string, 0, -0, 1, +Infinity, -Infinity, NaN, true and false        *)
(* resolve to their reserved ids without registering anything, so a second  *)
(* call returns the same id; every other constant registers exactly one     *)
(* fresh Constant descriptor.                                               *)

\* the reserved id of a constant of the table, as the specification lists them
ReservedId(constant) ==
    CASE constant = Constant_String(<<>>) -> TypeId_EMPTY_STRING
      [] constant = Constant_Number(f64_from(0)) -> TypeId_ZERO
      [] constant = Constant_Number(f64_NEG_ZERO) -> TypeId_ZERO
      [] constant = Constant_Number(f64_from(1)) -> TypeId_ONE
      [] constant = Constant_Number(f64_INFINITY) -> TypeId_INFINITY
      [] constant = Constant_Number(f64_NEG_INFINITY) -> TypeId_NEG_INFINITY
      [] constant = Constant_Number(f64_NAN) -> TypeId_NAN
      [] constant = Constant_Boolean(TRUE) -> TypeId_TRUE
      [] constant = Constant_Boolean(FALSE) -> TypeId_FALSE
      [] OTHER -> 0 - 1

C2_ConstantShortCircuit ==
    \A constant \in ConstantInputs :
        LET r == new_constant_type(types, constant)
            again == new_constant_type(r.types, constant)
        IN  IF ReservedId(constant) >= 0
            THEN /\ r = Ret(types, ReservedId(constant))
                 /\ again.id = r.id
            ELSE /\ r.types = Append(types, Type_Constant(constant))
                 /\ r.id = count_of_types(types)

\* -0 and NaN were asked for in a store that has grown, and resolved to ZERO and NAN
C2_Witness ==
    /\ last.op = "new_constant_type"
    /\ last.args[1] \in {Constant_Number(f64_NEG_ZERO), Constant_Number(f64_NAN)}
    /\ last.ret \in {TypeId_ZERO, TypeId_NAN}
    /\ RegisteredNothing
    /\ count_of_types(types) > TypeId_INTERNAL_TYPE_COUNT

---------------------------------------------------------------------------
(* C6  Union idempotence.  For every id x of every reachable store,         *)
(* new_or_type(x, x) returns x and registers no type.                       *)
C6_UnionIdempotence ==
    \A x \in AllIds(types) : new_or_type(types, x, x) = Ret(types, x)

\* a registered type was united with itself
C6_Witness ==
    /\ last.op = "new_or_type"
    /\ last.args[1] = last.args[2]
    /\ last.args[1] \in UserIds(types)
    /\ last.ret = last.args[1]
    /\ RegisteredNothing

---------------------------------------------------------------------------
(* C7  Union with never.  For every id x of every reachable store,          *)
(* new_or_type(NEVER_TYPE, x) and new_or_type(x, NEVER_TYPE) return x and   *)
(* register no type.                                                        *)
C7_UnionWithNever ==
    \A x \in AllIds(types) :
        /\ new_or_type(types, TypeId_NEVER_TYPE, x) = Ret(types, x)
        /\ new_or_type(types, x, TypeId_NEVER_TYPE) = Ret(types, x)

\* a registered type was united with never, on its right
C7_Witness ==
    /\ last.op = "new_or_type"
    /\ last.args[2] = TypeId_NEVER_TYPE
    /\ last.args[1] \in UserIds(types)
    /\ last.ret = last.args[1]
    /\ RegisteredNothing

---------------------------------------------------------------------------
(* C8  Boolean completion.  In every reachable store new_or_type(TRUE,      *)
(* FALSE) and new_or_type(FALSE, TRUE) return OPEN_BOOLEAN_TYPE and         *)
(* register no type.                                                        *)
C8_BooleanCompletion ==
    /\ new_or_type(types, TypeId_TRUE, TypeId_FALSE) = Ret(types, TypeId_OPEN_BOOLEAN_TYPE)
    /\ new_or_type(types, TypeId_FALSE, TypeId_TRUE) = Ret(types, TypeId_OPEN_BOOLEAN_TYPE)

\* false was united with true in a store that has grown
C8_Witness ==
    /\ last.op = "new_or_type"
    /\ last.args = <<TypeId_FALSE, TypeId_TRUE>>
    /\ last.ret = TypeId_OPEN_BOOLEAN_TYPE
    /\ RegisteredNothing
    /\ count_of_types(types) > TypeId_INTERNAL_TYPE_COUNT

---------------------------------------------------------------------------
(* C9  Conditional collapse.  For all ids t, f and x,                       *)
(* new_conditional_type(TRUE, t, f) returns t, new_conditional_type(FALSE,  *)
(* t, f) returns f and new_conditional_type(x, TRUE, FALSE) returns x; none *)
(* of the calls registers a type.                                           *)
C9_ConditionalCollapse ==
    /\ \A t \in SampleIds(types), f \in SampleIds(types) :
            /\ new_conditional_type(types, TypeId_TRUE, t, f) = Ret(types, t)
            /\ new_conditional_type(types, TypeId_FALSE, t, f) = Ret(types, f)
    /\ \A x \in AllIds(types) :
            new_conditional_type(types, x, TypeId_TRUE, TypeId_FALSE) = Ret(types, x)

\* the condition of `x ? true : false` was a registered negation, and came back
C9_Witness ==
    /\ last.op = "new_conditional_type"
    /\ last.args[2] = TypeId_TRUE
    /\ last.args[3] = TypeId_FALSE
    /\ last.args[1] \in UserIds(types)
    /\ is_negation(types, last.args[1])
    /\ last.ret = last.args[1]
    /\ RegisteredNothing

---------------------------------------------------------------------------
(* C3  Union flattening.  As the spec puts it: for any distinct a, b, c     *)
(* that are neither never nor constants, new_or_type(new_or_type(a, b), c)  *)
(* and new_or_type(a, new_or_type(b, c)) produce the same id, whether the   *)
(* two are evaluated on the same store or one after the other.              *)

\* (a | b) | c and a | (b | c), each evaluated on S
or_left(S, a, b, c) ==
    LET ab == new_or_type(S, a, b) IN new_or_type(ab.types, ab.id, c)

or_right(S, a, b, c) ==
    LET bc == new_or_type(S, b, c) IN new_or_type(bc.types, a, bc.id)

C3_Operands(S) ==
    { t \in UnionMemberIds(S) \X UnionMemberIds(S) \X UnionMemberIds(S) :
        /\ t[1] # t[2] /\ t[1] # t[3] /\ t[2] # t[3]
        /\ \A i \in 1 .. 3 : t[i] # TypeId_NEVER_TYPE /\ ~is_constant(S, t[i]) }

C3_AsClaimed ==
    \A t \in C3_Operands(types) :
        LET L == or_left(types, t[1], t[2], t[3])
        IN  \/ L.id = or_right(types, t[1], t[2], t[3]).id
            \/ L.id = or_right(L.types, t[1], t[2], t[3]).id

(* C3 as amended: when, besides, none of a, b, c is a union, both calls     *)
(* register a descriptor Or(a, x) with x a registered Or(b, c), so that the *)
(* two results are unions of the same members in the same order; but they   *)
(* are two descriptors with two different ids.                              *)
is_a_b_c(S, id, a, b, c) ==
    /\ is_union(S, id)
    /\ get_type_by_id(S, id).lhs = a
    /\ get_type_by_id(S, get_type_by_id(S, id).rhs) = Type_Or(b, c)
    /\ members(S, id) = <<a, b, c>>

C3_UnionFlattening ==
    \A t \in C3_Operands(types) :
        (\A i \in 1 .. 3 : ~is_union(types, t[i])) =>
            LET L == or_left(types, t[1], t[2], t[3])
                R == or_right(types, t[1], t[2], t[3])
                after == or_right(L.types, t[1], t[2], t[3])
            IN  /\ is_a_b_c(L.types, L.id, t[1], t[2], t[3])
                /\ is_a_b_c(R.types, R.id, t[1], t[2], t[3])
                /\ is_a_b_c(after.types, after.id, t[1], t[2], t[3])
                /\ L.id # R.id
                /\ L.id # after.id

\* a | (b | c) was built of three registered interfaces, b | c first
C3_Witness ==
    /\ last.op = "new_or_type"
    /\ last.args[1] \in Interfaces(types)
    /\ is_union(types, last.args[2])
    /\ LET bc == get_type_by_id(types, last.args[2])
       IN  /\ {bc.lhs, bc.rhs} \subseteq Interfaces(types)
           /\ <<last.args[1], bc.lhs, bc.rhs>> \in C3_Operands(types)
           /\ is_a_b_c(types, last.ret, last.args[1], bc.lhs, bc.rhs)
    /\ count_of_types(types) = last.before + 1

---------------------------------------------------------------------------
(* C4  Intersection distributivity.  As the spec puts it: for every a whose *)
(* descriptor is Or(u, v) and every b, b = a included, new_and_type(a, b)   *)
(* returns the id that new_or_type(new_and_type(u, b), new_and_type(v, b))  *)
(* returns, whether the two are evaluated on the same store or one after    *)
(* the other.                                                               *)

\* the ids the properties of the intersections are evaluated at
IntersectionSampleIds(S) ==
    { TypeId_TRUE, TypeId_FALSE, TypeId_STRING_TYPE, TypeId_STRING_OR_NUMBER,
      TypeId_NUMBER_BUT_NOT_NOT_A_NUMBER } \cup UserIds(S)

Unions(S) == { id \in AllIds(S) : is_union(S, id) }

\* (u & b) | (v & b) for a = Or(u, v), evaluated on S
distributed(S, a, b) ==
    LET l == new_and_type(S, get_type_by_id(S, a).lhs, b)
        r == new_and_type(l.types, get_type_by_id(S, a).rhs, b)
    IN  new_or_type(r.types, l.id, r.id)

C4_AsClaimed ==
    \A a \in Unions(types), b \in IntersectionSampleIds(types) :
        LET r == new_and_type(types, a, b)
        IN  \/ r.id = distributed(types, a, b).id
            \/ r.id = distributed(r.types, a, b).id

(* C4 as amended: for every a whose descriptor is Or(u, v) and every b      *)
(* other than a, new_and_type(a, b) returns the id, and leaves the store,   *)
(* that new_or_type(new_and_type(u, b), new_and_type(v, b)) does when       *)
(* evaluated from the same store, b a union included; new_and_type(a, a)    *)
(* returns a itself and registers nothing.                                  *)
C4_IntersectionDistributivity ==
    \A a \in Unions(types) :
        /\ \A b \in IntersectionSampleIds(types) \ {a} :
                new_and_type(types, a, b) = distributed(types, a, b)
        /\ new_and_type(types, a, a) = Ret(types, a)

\* a union was intersected with another type: (u | v) & b is (u & b) | (v & b)
C4_Witness ==
    /\ last.op = "new_and_type"
    /\ is_union(types, last.args[1])
    /\ last.args[2] # last.args[1]
    /\ count_of_types(types) = last.before + 3
    /\ is_union(types, last.ret)
    /\ LET a == get_type_by_id(types, last.args[1])
           ty == get_type_by_id(types, last.ret)
       IN  /\ get_type_by_id(types, ty.lhs) = Type_And(a.lhs, last.args[2])
           /\ get_type_by_id(types, ty.rhs) = Type_And(a.rhs, last.args[2])

---------------------------------------------------------------------------
(* C5  Identity, not structure.  Two calls new_or_type(a, b) with the same  *)
(* arguments, where a # b, neither is never, the pair is not {TRUE, FALSE}, *)
(* a is not a union and b is not a union with a as an operand, each         *)
(* register a new Or(a, b) and return two different ids.                    *)
C5_Operands(S) ==
    { p \in UnionSampleIds(S) \X UnionSampleIds(S) :
        /\ p[1] # p[2]
        /\ p[1] # TypeId_NEVER_TYPE /\ p[2] # TypeId_NEVER_TYPE
        /\ {p[1], p[2]} # {TypeId_TRUE, TypeId_FALSE}
        /\ ~is_union(S, p[1])
        /\ is_union(S, p[2]) =>
              p[1] \notin {get_type_by_id(S, p[2]).lhs, get_type_by_id(S, p[2]).rhs} }

C5_IdentityNotStructure ==
    \A p \in C5_Operands(types) :
        LET first == new_or_type(types, p[1], p[2])
            second == new_or_type(first.types, p[1], p[2])
        IN  /\ first = register_type(types, Type_Or(p[1], p[2]))
            /\ second = register_type(first.types, Type_Or(p[1], p[2]))
            /\ first.id # second.id

\* the same union was asked for twice, and is in the store twice
C5_Witness ==
    /\ last.op = "new_or_type"
    /\ <<last.args[1], last.args[2]>> \in C5_Operands(types)
    /\ count_of_types(types) = last.before + 1
    /\ last.ret = last.before
    /\ get_type_by_id(types, last.ret) = Type_Or(last.args[1], last.args[2])
    /\ get_type_by_id(types, last.ret - 1) = Type_Or(last.args[1], last.args[2])

---------------------------------------------------------------------------
(* C10  Absorption scenario.  As the spec puts it: for registered, distinct *)
(* interfaces A and B, new_or_type(new_or_type(A, B), A) returns an id      *)
(* whose descriptor is Or(A, r) with r a union Or(B, ...), and A occurs     *)
(* once among the members of the result.                                    *)
C10_AsClaimed ==
    \A A \in Interfaces(types), B \in Interfaces(types) :
        A # B =>
            LET r == or_left(types, A, B, A)
                ty == get_type_by_id(r.types, r.id)
            IN  /\ ty.variant = "Or"
                /\ ty.lhs = A
                /\ is_union(r.types, ty.rhs)
                /\ get_type_by_id(r.types, ty.rhs).lhs = B
                /\ occurrences(members(r.types, r.id), A) = 1

(* C10 as amended: the call returns a newly registered id whose descriptor  *)
(* is Or(A, B): its right operand is B itself, not a union; A occurs once   *)
(* among its members.  (On the way Or(A, B) and Or(B, A) are registered, so *)
(* the result is the third descriptor the two calls register.)              *)
C10_AbsorptionScenario ==
    \A A \in Interfaces(types), B \in Interfaces(types) :
        A # B =>
            LET ab == new_or_type(types, A, B)
                r == new_or_type(ab.types, ab.id, A)
            IN  /\ get_type_by_id(r.types, r.id) = Type_Or(A, B)
                /\ members(r.types, r.id) = <<A, B>>
                /\ r.id = count_of_types(types) + 2
                /\ r.id # ab.id
                /\ r = new_or_type_from_iterator(types, <<A, B, A>>)

\* (A | B) | A was built of two registered interfaces
C10_Witness ==
    /\ last.op = "new_or_type_from_iterator"
    /\ Len(last.args) = 3
    /\ last.args[1] = last.args[3]
    /\ last.args[1] # last.args[2]
    /\ {last.args[1], last.args[2]} \subseteq Interfaces(types)
    /\ get_type_by_id(types, last.ret) = Type_Or(last.args[1], last.args[2])
    /\ count_of_types(types) = last.before + 3

---------------------------------------------------------------------------
(* C16  Identifier range.  Every id register_type returns fits 16 bits and  *)
(* is the index of the descriptor it registered; in a store that holds as   *)
(* many descriptors as 16 bits address, register_type panics and appends    *)
(* nothing, so that ids never wrap and no two descriptors share an id.      *)
C16_IdentifierRange ==
    /\ count_of_types(types) <= u16_MAX + 1
    /\ (panic = None /\ last.op = "register_type") =>
            /\ last.ret \in 0 .. u16_MAX
            /\ last.ret = last.before
            /\ get_type_by_id(types, last.ret) = last.args[1]
    /\ (panic # None) =>
            /\ count_of_types(types) = u16_MAX + 1
            /\ last.op = "register_type" => last.before = count_of_types(types)
    /\ \A ty \in RegisterInputs :
            LET r == register_type(types, ty)
            IN  IF count_of_types(types) = u16_MAX + 1
                THEN panicked(r) /\ r.types = types
                ELSE /\ ~panicked(r)
                     /\ r.id = count_of_types(types)
                     /\ r.id \in 0 .. u16_MAX
                     /\ r.types = Append(types, ty)

\* the last id was handed out, and the next register_type panicked
C16_Witness ==
    /\ panic = Some("too many types!")
    /\ last.op = "register_type"
    /\ count_of_types(types) = u16_MAX + 1
    /\ get_type_by_id(types, u16_MAX).variant = "Interface"

---------------------------------------------------------------------------
(* The identifiers a descriptor refers to *)

\* the ids in an Option<TypeId> and in an Option<Vec<TypeId>>
ids_of_option(o) == IF o = None THEN {} ELSE {o[1]}

ids_of_optional_list(o) == IF o = None THEN {} ELSE { o[1][i] : i \in 1 .. Len(o[1]) }

references(ty) ==
    CASE ty.variant = "Interface" ->
            ids_of_optional_list(ty.parameters) \cup ids_of_option(ty.extends)
      [] ty.variant = "Class" -> ids_of_optional_list(ty.type_parameters)
      [] ty.variant = "AliasTo" -> {ty.to} \cup ids_of_optional_list(ty.parameters)
      [] ty.variant \in {"Or", "And"} -> {ty.lhs, ty.rhs}
      [] ty.variant = "RootPolyType" ->
            ( CASE ty.nature.nature \in {"Error", "Open"} -> {ty.nature.base}
                [] ty.nature.nature = "FreeVariable" -> {ty.nature.based_on}
                [] ty.nature.nature = "Parameter" -> {ty.nature.fixed_to}
                [] OTHER -> {ty.nature.extends} )
      [] ty.variant = "PartiallyAppliedGenerics" ->
            {ty.on, ty.arguments.parameter, ty.arguments.argument}
      [] ty.variant = "Constructor" ->
            {ty.constructor.condition, ty.constructor.truthy_result,
             ty.constructor.otherwise_result, ty.constructor.result_union}
      [] OTHER -> {}

\* the descriptors r registered on top of S refer to nothing but earlier ids
RefersBack(S, r) ==
    panicked(r) \/
    \A id \in Len(S) .. (Len(r.types) - 1) :
        references(get_type_by_id(r.types, id)) \subseteq 0 .. (id - 1)

\* the ids the properties of the placeholders are evaluated at
MutationSampleIds(S) == {TypeId_STRING_OR_NUMBER} \cup UserIds(S)

---------------------------------------------------------------------------
(* C12  No forward references.  As the spec puts it: in every reachable     *)
(* state, every identifier referenced inside the descriptor at id i was     *)
(* registered before i.                                                     *)
C12_AsClaimed ==
    \A id \in AllIds(types) :
        references(get_type_by_id(types, id)) \subseteq 0 .. (id - 1)

(* C12 as amended: in every reachable state every identifier referenced     *)
(* inside a descriptor is a registered one (the calls being made with       *)
(* registered ids), and every descriptor a constructor registers refers     *)
(* only to ids registered before it.  The built-in descriptors do refer     *)
(* forward (the error type to any, Array and Promise to T), and a           *)
(* controlled mutation may point a descriptor at any registered id, a later *)
(* one or its own included.                                                 *)
C12_ReferencesAreRegistered ==
    /\ \A id \in AllIds(types) :
            references(get_type_by_id(types, id)) \subseteq AllIds(types)
    /\ ~ (references(get_type_by_id(types, TypeId_ERROR_TYPE)) \subseteq {})
    /\ TypeId_T_TYPE \in references(get_type_by_id(types, TypeId_ARRAY_TYPE))
    /\ TypeId_T_TYPE \in references(get_type_by_id(types, TypeId_PROMISE_TYPE))
    /\ \A a \in MutationSampleIds(types), b \in MutationSampleIds(types) :
            /\ RefersBack(types, new_or_type(types, a, b))
            /\ RefersBack(types, new_and_type(types, a, b))
            /\ RefersBack(types, new_logical_negation_type(types, a))
            /\ RefersBack(types, new_function_parameter(types, parameter_names, a,
                                                        <<0, 4>>, "x"))
            /\ \A c \in MutationSampleIds(types) :
                    RefersBack(types, new_conditional_type(types, a, b, c))

\* an alias was pointed at a type registered after it
C12_Witness ==
    /\ panic = None
    /\ last.op = "update_alias"
    /\ get_type_by_id(types, last.args[1]).variant = "AliasTo"
    /\ get_type_by_id(types, last.args[1]).to = last.args[2]
    /\ last.args[2] > last.args[1]

---------------------------------------------------------------------------
\* the names of the controlled mutations, as the calls record them
MutationOps ==
    {"modify_interface_type_parameter_constraint", "_set_inferred_constraint",
     "set_extends_on_interface", "update_alias", "update_generic_extends"}

(* C13  Descriptor immutability.  register_type and every new_* constructor *)
(* leave every registered descriptor as it was; a controlled mutation       *)
(* registers nothing and changes at most the descriptor it is addressed to; *)
(* no call ever changes the variant of a descriptor.                        *)
C13_DescriptorImmutability ==
    [][ /\ count_of_types(types') >= count_of_types(types)
        /\ \A id \in AllIds(types) :
                get_type_by_id(types', id).variant = get_type_by_id(types, id).variant
        /\ last'.op \notin MutationOps => Extends(types', types)
        /\ last'.op \in MutationOps =>
                /\ count_of_types(types') = count_of_types(types)
                /\ \A id \in AllIds(types) \ {last'.args[1]} :
                        get_type_by_id(types', id) = get_type_by_id(types, id) ]_vars

\* a mutation has rewritten the bound of a registered generic
C13_Witness ==
    /\ panic = None
    /\ last.op = "update_generic_extends"
    /\ last.args[1] \in UserIds(types)
    /\ is_structure_generic(get_type_by_id(types, last.args[1]))
    /\ get_type_by_id(types, last.args[1]).nature.extends = last.args[2]
    /\ last.args[2] # TypeId_ANY_TYPE

---------------------------------------------------------------------------
\* the descriptor at id is of the variant the mutation `op` works on
expected_variant(op, ty) ==
    CASE op \in {"modify_interface_type_parameter_constraint", "update_generic_extends"} ->
            is_structure_generic(ty)
      [] op = "_set_inferred_constraint" -> is_parameter(ty)
      [] op = "set_extends_on_interface" -> ty.variant = "Interface"
      [] op = "update_alias" -> ty.variant = "AliasTo"

\* the result of the mutation `op` on the store S
mutation(op, S, target, value) ==
    CASE op = "modify_interface_type_parameter_constraint" ->
            modify_interface_type_parameter_constraint(S, target, value)
      [] op = "_set_inferred_constraint" -> set_inferred_constraint(S, target, value)
      [] op = "set_extends_on_interface" -> set_extends_on_interface(S, target, value)
      [] op = "update_alias" -> update_alias(S, target, value)
      [] op = "update_generic_extends" -> update_generic_extends(S, target, value)

(* C14  A mismatched variant is fatal.  Each of the five controlled         *)
(* mutations, addressed to a descriptor that is not of the variant it       *)
(* expects, terminates execution rather than returning normally.            *)
C14_MismatchedVariantIsFatal ==
    /\ \A op \in MutationOps, target \in MutationTargets(types),
          value \in MutationValues(types) :
            ~expected_variant(op, get_type_by_id(types, target)) =>
                panicked(mutation(op, types, target, value))
    /\ (last.op \in MutationOps
            /\ ~expected_variant(last.op, get_type_by_id(types, last.args[1]))) =>
                panic # None

---------------------------------------------------------------------------
(* C15  set_extends_on_interface(I, X).  On an interface that extends       *)
(* Some(Y) the call leaves extends = Some(X), the name and the parameters   *)
(* as they were, and every other descriptor untouched; on an interface that *)
(* extends nothing the call changes nothing in the store.                   *)
C15_SetExtendsOnInterface ==
    [][ (last'.op = "set_extends_on_interface" /\ panic' = None) =>
            LET I == last'.args[1]
                X == last'.args[2]
                before == get_type_by_id(types, I)
                after == get_type_by_id(types', I)
            IN  /\ (before.variant = "Interface" /\ before.extends # None) =>
                        /\ after.extends = Some(X)
                        /\ after.name = before.name
                        /\ after.parameters = before.parameters
                        /\ after.variant = "Interface"
                        /\ types' = [types EXCEPT ![I + 1] = after]
                        /\ auxiliary' = auxiliary
                /\ (before.variant = "Interface" /\ before.extends = None) =>
                        /\ types' = types
                        /\ auxiliary' = auxiliary ]_vars

\* a registered interface that extended Object now extends a registered type
C15_Witness ==
    /\ panic = None
    /\ last.op = "set_extends_on_interface"
    /\ last.args[1] \in Interfaces(types)
    /\ last.args[2] \in UserIds(types)
    /\ get_type_by_id(types, last.args[1]).extends = Some(last.args[2])
    /\ get_type_by_id(types, last.args[1]).name = "I"

---------------------------------------------------------------------------
(* What the claims about regular expressions are stated with *)

is_ok(r) == "ok" \in DOMAIN r

\* the regular expression registered at id
regexp_at(S, id) == get_type_by_id(S, id).regexp

\* serializing and reading back gives a RegExp with the same source
RoundTrips(regexp) ==
    LET r == RegExp_deserialize(RegExp_serialize(regexp))
    IN  ~panicked(r) /\ r.source = regexp.source

\* the source is /pattern/flags, and its last delimiter parts the two
SourceForm(regexp, pattern, flags) ==
    /\ regexp.source = <<"/">> \o pattern \o <<"/">> \o flags
    /\ regexp.source[1] = "/"
    /\ rsplit_once(Tail(regexp.source), "/") = Some(<<pattern, flags>>)

\* the flag strings RegExp::new is evaluated at: none, and strings of known flags
FlagOptionSamples ==
    {None} \cup { Some(flags) : flags \in {<<>>, <<"g">>, <<"i">>, <<"i", "g">>, <<"y", "d">>} }

---------------------------------------------------------------------------
(* C11  Regex source round trip.  For every RegExp that compiled (whatever  *)
(* the pattern, one with "/" in it included, and whatever accepted flags,   *)
(* none and the empty string included), serializing it and deserializing    *)
(* the bytes gives a RegExp with the same source; the source is             *)
(* /pattern/flags and the rightmost "/" separates the pattern from the      *)
(* flags.                                                                   *)
C11_RegexRoundTrip ==
    /\ \A id \in RegularExpressions(types) : RoundTrips(regexp_at(types, id))
    /\ (last.op = "new_regexp" /\ panic = None) =>
            (is_ok(last.ret) =>
                SourceForm(regexp_at(types, last.ret.ok), last.args[1], last.args[2]))
    /\ last.op = "deserialize" =>
            /\ panic = None
            /\ last.ret[1].source = regexp_at(types, last.args[1]).source
            /\ String_deserialize(last.args[2]) = regexp_at(types, last.args[1]).source
    /\ \A pattern \in PatternInputs, flag_options \in FlagOptionSamples :
            LET r == RegExp_new(pattern, flag_options)
            IN  is_ok(r) =>
                    /\ RoundTrips(r.ok)
                    /\ SourceForm(r.ok, pattern,
                                  IF flag_options = None THEN <<>> ELSE flag_options[1])

\* a regular expression with the delimiter in its pattern and a flag was read back
C11_Witness ==
    /\ last.op = "deserialize"
    /\ panic = None
    /\ last.ret[1].source = <<"/", "a", "/", "b", "/", "g">>
    /\ regexp_at(types, last.args[1]).source = <<"/", "a", "/", "b", "/", "g">>

---------------------------------------------------------------------------
(* What the claims about exec are stated with.  exec only registers, so    *)
(* the regular expression and the operand of the last call are in the      *)
(* store as they were when the call was made.                              *)

\* the prototype recorded for an object, as a set
prototypes_of(information, object) ==
    { e[2] : e \in { e \in information.prototypes : e[1] = object } }

\* the types of the values registered on an object under the key `string`
values_under(information, object, string) ==
    LET properties == properties_of(information, object)
    IN  { properties[k][3].ty :
            k \in { k \in 1 .. Len(properties) :
                        properties[k][2] = PropertyKey_String(string) } }

\* the keys registered on an object
keys_of(information, object) ==
    LET properties == properties_of(information, object)
    IN  { properties[k][2].string : k \in 1 .. Len(properties) }

is_string_constant(ty) == ty.variant = "Constant" /\ ty.constant.constant = "String"

\* the last call was exec, and it took the concrete way
LastExecConcrete ==
    /\ last.op = "exec"
    /\ ~regexp_at(types, last.args[1]).flags_unsupported
    /\ is_string_constant(get_type_by_id(types, last.args[2]))

\* what the matcher finds for the last call
LastFound ==
    Regex_find(regexp_at(types, last.args[1]).re,
               get_type_by_id(types, last.args[2]).constant.string)

\* the id is a registered object with the given prototype
IsObjectOn(id, prototype) ==
    /\ id \in UserIds(types)
    /\ get_type_by_id(types, id) = Type_Object_RealDeal
    /\ prototypes_of(info, id) = {prototype}

\* under `string` the object has one value, the constant `constant`
HasConstant(object, string, constant) ==
    /\ Cardinality(values_under(info, object, string)) = 1
    /\ \A value \in values_under(info, object, string) :
            get_type_by_id(types, value) = Type_Constant(constant)

---------------------------------------------------------------------------
(* C17  Dispatch of exec.  exec evaluates concretely only when the regular *)
(* expression was compiled without d, g and y and the operand is a string  *)
(* constant.  In every other case the result is the union of a new object  *)
(* and null, the object having the string type as its input and as its     *)
(* positional properties and the number type as its index: never a         *)
(* concrete match, never the null type alone.                              *)
C17_ExecDispatch ==
    (last.op = "exec" /\ panic = None) =>
        LET regexp == regexp_at(types, last.args[1])
            object == last.before
        IN  /\ ~LastExecConcrete =>
                    /\ last.ret \in UserIds(types)
                    /\ last.ret # TypeId_NULL_TYPE
                    /\ get_type_by_id(types, last.ret) = Type_Or(object, TypeId_NULL_TYPE)
                    /\ IsObjectOn(object, TypeId_ARRAY_TYPE)
                    /\ values_under(info, object, key_input) = {TypeId_STRING_TYPE}
                    /\ values_under(info, object, key_index) = {TypeId_NUMBER_TYPE}
                    /\ \A idx \in 0 .. (regexp.groups - 1) :
                            values_under(info, object, to_string(idx)) = {TypeId_STRING_TYPE}
                    /\ \A string \in keys_of(info, object) \ {key_groups, key_length} :
                            values_under(info, object, string)
                                \subseteq {TypeId_STRING_TYPE, TypeId_NUMBER_TYPE}
            /\ LastExecConcrete =>
                    /\ get_type_by_id(types, last.ret).variant # "Or"
                    /\ values_under(info, object, key_input) = {last.args[2]}

\* a regular expression with the flag g was run on a string constant it would match
C17_Witness ==
    /\ last.op = "exec"
    /\ panic = None
    /\ regexp_at(types, last.args[1]).source = <<"/", "a", "/", "g">>
    /\ get_type_by_id(types, last.args[2]) = Type_Constant(Constant_String(<<"a">>))
    /\ get_type_by_id(types, last.ret) = Type_Or(last.before, TypeId_NULL_TYPE)

---------------------------------------------------------------------------
(* C18  Concrete evaluation on a constant string s.  When the matcher      *)
(* finds nothing the result is exactly the null type.  When it finds a     *)
(* match m whose groups all captured, the result is one object (not null,  *)
(* not a union) with Array as prototype; its input is the id of the        *)
(* operand, its index the number constant m.start, its positional          *)
(* properties 0 .. group count - 1 the string constants of the captured    *)
(* slices of s, its groups an object with one property for each named      *)
(* group, and its length the number constant of the group count, which is  *)
(* the number of capturing groups plus one.                                *)
C18_ConcreteEvaluation ==
    LastExecConcrete =>
        LET regexp == regexp_at(types, last.args[1])
            s == get_type_by_id(types, last.args[2]).constant.string
            capturing == Cardinality(groups_in(regexp.re.node))
            object == last.before
        IN  /\ LastFound = None => panic = None /\ last.ret = TypeId_NULL_TYPE
            /\ (LastFound # None /\ \A g \in 1 .. capturing : LastFound[1].captures[g] # None) =>
                    LET m == LastFound[1]
                    IN  /\ panic = None
                        /\ last.ret = object
                        /\ IsObjectOn(object, TypeId_ARRAY_TYPE)
                        /\ values_under(info, object, key_input) = {last.args[2]}
                        /\ HasConstant(object, key_index, Constant_Number(f64_from(Match_start(m))))
                        /\ HasConstant(object, to_string(0), Constant_String(slice(s, m.range)))
                        /\ \A g \in 1 .. capturing :
                                HasConstant(object, to_string(g),
                                            Constant_String(slice(s, m.captures[g][1])))
                        /\ keys_of(info, object) =
                                {key_input, key_index, key_groups, key_length}
                                    \cup { to_string(idx) : idx \in 0 .. capturing }
                        /\ regexp.groups = capturing + 1
                        /\ HasConstant(object, key_length, Constant_Number(f64_from(capturing + 1)))
                        /\ Cardinality(values_under(info, object, key_groups)) = 1
                        /\ \A groups \in values_under(info, object, key_groups) :
                                /\ IsObjectOn(groups, TypeId_NULL_TYPE)
                                /\ keys_of(info, groups)
                                        = { e[1] : e \in regexp.named_group_indices }
                                /\ Len(properties_of(info, groups))
                                        = Cardinality(regexp.named_group_indices)
                                /\ \A e \in regexp.named_group_indices :
                                        HasConstant(groups, e[1],
                                            Constant_String(slice(s, m.captures[e[2] + 1][1])))

\* the named group matched from the third character of the operand on
C18_Witness ==
    /\ LastExecConcrete
    /\ panic = None
    /\ last.ret = last.before
    /\ regexp_at(types, last.args[1]).named_group_indices = { << <<"n">>, 0 >> }
    /\ get_type_by_id(types, last.args[2]).constant.string = <<"b", "b", "a", "b">>
    /\ HasConstant(last.ret, key_index, Constant_Number(f64_from(2)))
    /\ HasConstant(last.ret, key_length, Constant_Number(f64_from(2)))

---------------------------------------------------------------------------
(* C19  A group that did not take part.  Concrete evaluation of a regular  *)
(* expression such as (a)(b)? on a string constant on which the match      *)
(* succeeds while a capturing group took no part completes normally: the   *)
(* result is the object, with the slices of the groups that matched and    *)
(* undefined as the property of the one that did not.                      *)
C19_UnmatchedOptionalGroup ==
    (LastExecConcrete /\ LastFound # None) =>
        LET regexp == regexp_at(types, last.args[1])
            s == get_type_by_id(types, last.args[2]).constant.string
            m == LastFound[1]
            object == last.before
        IN  (\E g \in 1 .. Len(m.captures) : m.captures[g] = None) =>
                /\ panic = None
                /\ last.ret = object
                /\ HasConstant(object, to_string(0), Constant_String(slice(s, m.range)))
                /\ \A g \in 1 .. Len(m.captures) :
                        IF m.captures[g] = None
                        THEN values_under(info, object, to_string(g)) = {TypeId_UNDEFINED_TYPE}
                        ELSE HasConstant(object, to_string(g),
                                         Constant_String(slice(s, m.captures[g][1])))

---------------------------------------------------------------------------
(* C20  Failure of the compilation.  When the pattern does not parse,      *)
(* new_regexp returns the parser's message as an error, registers nothing  *)
(* and changes no descriptor and no auxiliary map; when it compiles, one   *)
(* RegularExpression descriptor is registered and its id returned.  The    *)
(* flags d, g and y are no error, they mark the expression as one whose    *)
(* flags are not supported; a flag outside d g i m s u v y is fatal, not   *)
(* an error string.                                                        *)
C20_NewRegexp ==
    [][ last'.op = "new_regexp" =>
            LET pattern == last'.args[1]
                flags == last'.args[2]
                given == { flags[i] : i \in 1 .. Len(flags) }
                parsed == backends_try_parse(pattern, Flags_default)
            IN  /\ ~ (given \subseteq KnownFlags) =>
                        /\ panic' # None
                        /\ last'.ret = None
                        /\ types' = types
                /\ (given \subseteq KnownFlags /\ is_err(parsed)) =>
                        /\ panic' = None
                        /\ last'.ret = Err(parsed.err)
                        /\ types' = types
                        /\ auxiliary' = auxiliary
                        /\ info' = info
                /\ (given \subseteq KnownFlags /\ ~is_err(parsed)) =>
                        /\ panic' = None
                        /\ last'.ret = Ok(count_of_types(types))
                        /\ count_of_types(types') = count_of_types(types) + 1
                        /\ Extends(types', types)
                        /\ get_type_by_id(types', last'.ret.ok).variant = "SpecialObject"
                        /\ get_type_by_id(types', last'.ret.ok).special = "RegularExpression"
                        /\ regexp_at(types', last'.ret.ok).flags_unsupported
                                = (given \cap {"d", "g", "y"} # {})
                        /\ auxiliary' = auxiliary
                        /\ info' = info
                /\ \A flag \in KnownFlags :
                        LET r == new_regexp(types, <<"a">>, <<flag>>)
                        IN  /\ ~panicked(r) /\ ~is_err(r)
                            /\ regexp_at(r.types, r.id).flags_unsupported
                                    = (flag \in {"d", "g", "y"}) ]_vars

\* a pattern that does not parse, with a flag that is not supported: an error, and
\* nothing registered
C20_Witness ==
    /\ last.op = "new_regexp"
    /\ panic = None
    /\ last.args = << <<"(", "a">>, <<"g">> >>
    /\ last.ret = Err("Unbalanced parenthesis")
    /\ count_of_types(types) = last.before

---------------------------------------------------------------------------
(* Narrowing *)

\* the store the last call was made on: nothing is removed from the vector
StoreBefore == SubSeq(types, 1, last.before)

\* the ids the last call registered
RegisteredByLast == last.before .. (Len(types) - 1)

is_narrowed(S, id) == get_type_by_id(S, id).variant = "Narrowed"

\* the last call was new_narrowed of a narrowed type to a partially applied
\* GreaterThan, LessThan, MultipleOf or Not
LastNarrowedAgain ==
    /\ last.op = "new_narrowed"
    /\ panic = None
    /\ is_narrowed(StoreBefore, last.args[1])
    /\ is_partially_applied_restriction(get_type_by_id(StoreBefore, last.args[2]))

\* C26: narrowing never nests and keeps the original base.  No Narrowed descriptor
\* has a `from` that is itself Narrowed; a call of new_narrowed registers exactly one
\* Narrowed descriptor, the last of the vector, whose id it returns; its `from` is
\* the `from` of the input when that one is Narrowed and the input otherwise; when
\* the input is Narrowed with bound e and `to` is a partially applied GreaterThan,
\* LessThan, MultipleOf or Not, its narrowed_to is what new_and_type(e, to) returns
\* on the store of the call, and in every other case it is `to` itself, nothing
\* else being registered.
C26_NarrowingNeverNests ==
    /\ \A id \in UserIds(types) :
           is_narrowed(types, id) => ~is_narrowed(types, get_type_by_id(types, id).from)
    /\ (last.op = "new_narrowed" /\ panic = None) =>
           LET from == last.args[1]
               to == last.args[2]
               from_ty == get_type_by_id(StoreBefore, from)
               registered == get_type_by_id(types, last.ret)
           IN  /\ last.ret = Len(types) - 1
               /\ { id \in RegisteredByLast : is_narrowed(types, id) } = {last.ret}
               /\ registered.from = IF from_ty.variant = "Narrowed" THEN from_ty.from ELSE from
               /\ IF LastNarrowedAgain
                  THEN LET and == new_and_type(StoreBefore, from_ty.narrowed_to, to)
                       IN  /\ registered.narrowed_to = and.id
                           /\ SubSeq(types, 1, Len(types) - 1) = and.types
                  ELSE /\ registered.narrowed_to = to
                       /\ Len(types) = last.before + 1

\* a narrowed type was narrowed again, to a restriction that is not its bound: the
\* intersection of the two was registered, and then the Narrowed descriptor
C26_Witness ==
    /\ LastNarrowedAgain
    /\ Len(types) = last.before + 2
    /\ get_type_by_id(types, last.before).variant = "And"
    /\ get_type_by_id(types, last.ret) =
           Type_Narrowed(TypeId_NUMBER_TYPE, last.before)

---------------------------------------------------------------------------
(* The normal forms of the unions and of the intersections *)

\* the descriptor Or(l, r) of id is in the form new_or_type registers
right_leaning(S, id) ==
    LET ty == get_type_by_id(S, id)
    IN  /\ ~is_union(S, ty.lhs)
        /\ ty.lhs # ty.rhs
        /\ TypeId_NEVER_TYPE \notin {ty.lhs, ty.rhs}
        /\ {ty.lhs, ty.rhs} # {TypeId_TRUE, TypeId_FALSE}

\* the unions among the descriptors registered from the id `from` on
UnionsFrom(S, from) == { id \in from .. (Len(S) - 1) : is_union(S, id) }

\* C22: right-leaning unions.  Every Or(l, r) descriptor that new_or_type has
\* registered, and every one that a further call of new_or_type registers whatever
\* its operands (never, true, false, a type that is no union, a built-in or a
\* registered union), has a left operand l that is not itself a union, has l # r,
\* has neither operand equal to NEVER_TYPE, and is not the pair of TRUE and FALSE.
C22_RightLeaningUnions ==
    /\ \A id \in UnionsFrom(types, TypeId_INTERNAL_TYPE_COUNT) : right_leaning(types, id)
    /\ \A lhs \in UnionSampleIds(types), rhs \in UnionSampleIds(types) :
           LET r == new_or_type(types, lhs, rhs)
           IN  \A id \in UnionsFrom(r.types, Len(types)) : right_leaning(r.types, id)

\* a union was united with one of its members: the call went through the
\* flattening and registered a union of the same two members
C22_Witness ==
    /\ last.op = "new_or_type"
    /\ panic = None
    /\ is_union(types, last.args[1])
    /\ last.args[2] = get_type_by_id(types, last.args[1]).rhs
    /\ UnionsFrom(types, last.before) = {last.ret}
    /\ get_type_by_id(types, last.ret) = get_type_by_id(types, last.args[1])

\* no id occurs twice among the members of id
duplicate_free(S, id) ==
    \A member \in UserIds(S) : occurrences(members(S, id), member) <= 1

\* C23: duplicate-free unions.  When the unions are built by new_or_type alone, of
\* registered interfaces, the member list of every id new_or_type returns contains
\* no member twice, whatever the length of the unions it is given: new_or_type(A, U)
\* with A anywhere inside U returns a union in which A occurs once.
\* (It does not hold: A is looked for among the two operands of U only.)
C23_DuplicateFreeUnions ==
    \A lhs \in UnionInputIds(types), rhs \in UnionInputIds(types) :
        LET r == new_or_type(types, lhs, rhs)
        IN  duplicate_free(r.types, r.id)

is_intersection(S, id) == get_type_by_id(S, id).variant = "And"

\* the descriptor And(l, r) of id is in the form new_and_type registers
intersection_normal_form(S, id) ==
    LET ty == get_type_by_id(S, id)
    IN  /\ ty.lhs # ty.rhs
        /\ ~is_union(S, ty.lhs) /\ ~is_union(S, ty.rhs)
        /\ ~is_constant(S, ty.lhs) /\ ~is_constant(S, ty.rhs)
        /\ ~is_intersection(S, ty.rhs)

\* the intersections among the descriptors registered from the id `from` on
IntersectionsFrom(S, from) == { id \in from .. (Len(S) - 1) : is_intersection(S, id) }

\* C24: intersection normal form.  Every And(l, r) descriptor that new_and_type has
\* registered, and every one a further call registers, has l # r, neither operand a
\* union, neither operand a constant and a right operand that is not itself an And;
\* and a call of new_and_type of which exactly one operand is a constant and the
\* other is not a union returns the id of the constant and registers nothing.
C24_IntersectionNormalForm ==
    /\ \A id \in IntersectionsFrom(types, TypeId_INTERNAL_TYPE_COUNT) :
           intersection_normal_form(types, id)
    /\ \A lhs \in IntersectionSampleIds(types), rhs \in IntersectionSampleIds(types) :
           LET r == new_and_type(types, lhs, rhs)
           IN  /\ \A id \in IntersectionsFrom(r.types, Len(types)) :
                      intersection_normal_form(r.types, id)
               /\ (is_constant(types, lhs) /\ ~is_constant(types, rhs) /\ ~is_union(types, rhs))
                      => r = Ret(types, lhs)
               /\ (is_constant(types, rhs) /\ ~is_constant(types, lhs) /\ ~is_union(types, lhs))
                      => r = Ret(types, rhs)

\* a type was intersected with an intersection it is an operand of: the call went
\* through the intersection on the right and registered one in normal form
C24_Witness ==
    /\ last.op = "new_and_type"
    /\ panic = None
    /\ is_intersection(types, last.args[2])
    /\ last.args[1] = get_type_by_id(types, last.args[2]).lhs
    /\ IntersectionsFrom(types, last.before) = {last.ret}
    /\ intersection_normal_form(types, last.ret)

---------------------------------------------------------------------------
(* The conditional types *)

\* the ids the conditions and the results of the properties are drawn from
ConditionalSampleIds(S) == {TypeId_TRUE, TypeId_FALSE, TypeId_STRING_TYPE} \cup UserIds(S)

is_conditional_result(S, id) ==
    /\ get_type_by_id(S, id).variant = "Constructor"
    /\ get_type_by_id(S, id).constructor.constructor = "ConditionalResult"

\* C25: negation swap.  When the condition is a ConditionalResult with truthy_result
\* FALSE and otherwise_result TRUE over an inner condition c, and the results are
\* neither equal nor TRUE and FALSE in this order, new_conditional_type(cond, t, f)
\* returns what new_conditional_type(c, f, t) returns, registering what it registers
\* and no ConditionalResult whose condition is such a negation; and
\* new_conditional_type(new_logical_negation_type(c), FALSE, TRUE) is c, nothing
\* being registered by it.
C25_NegationSwap ==
    /\ \A cond \in ConditionalSampleIds(types),
          t \in ConditionalSampleIds(types), f \in ConditionalSampleIds(types) :
           LET r == new_conditional_type(types, cond, t, f)
           IN  /\ \A id \in Len(types) .. (Len(r.types) - 1) :
                      is_conditional_result(r.types, id)
                          => ~is_negation(r.types,
                                          get_type_by_id(r.types, id).constructor.condition)
               /\ (is_negation(types, cond) /\ t # f /\ ~(t = TypeId_TRUE /\ f = TypeId_FALSE))
                      => r = new_conditional_type(
                                 types, get_type_by_id(types, cond).constructor.condition, f, t)
    /\ \A c \in ConditionalSampleIds(types) :
           LET negation == new_logical_negation_type(types, c)
           IN  new_conditional_type(negation.types, negation.id, TypeId_FALSE, TypeId_TRUE)
                   = Ret(negation.types, c)

\* the negation of a registered type was the condition of `? false : true`: the call
\* returned the type itself and registered nothing
C25_Witness ==
    /\ last.op = "new_conditional_type"
    /\ panic = None
    /\ is_negation(types, last.args[1])
    /\ <<last.args[2], last.args[3]>> = <<TypeId_FALSE, TypeId_TRUE>>
    /\ last.ret = get_type_by_id(types, last.args[1]).constructor.condition
    /\ last.ret \in UserIds(types)
    /\ RegisteredNothing

---------------------------------------------------------------------------
(* Completion of the constructors *)

\* the ids the recursion of the constructors goes into from a descriptor: the
\* operands of a union and of an intersection, the condition of a negation
descended(S, id) ==
    LET ty == get_type_by_id(S, id)
    IN  IF ty.variant \in {"Or", "And"} THEN {ty.lhs, ty.rhs}
        ELSE IF is_negation(S, id) THEN {ty.constructor.condition}
        ELSE {}

\* the recursion goes to smaller ids only, so that it ends
well_founded(S) == \A id \in AllIds(S) : descended(S, id) \subseteq 0 .. (id - 1)

ConstructorOps == {"new_or_type", "new_and_type", "new_conditional_type", "new_narrowed"}

\* C21: every constructor completes.  On a store reached from `default` through the
\* constructors and the controlled mutations, the unions, the intersections and the
\* negations refer to smaller ids only, so that the recursion of the constructors
\* over them is finite; every call of new_or_type, new_and_type,
\* new_conditional_type and new_narrowed returns, and the id it returns is smaller
\* than count_of_types() of the store it leaves.
C21_ConstructorsComplete ==
    /\ well_founded(types)
    /\ last.op \in ConstructorOps => (panic = None /\ last.ret < count_of_types(types))

\* the alias void was united with a constant and then pointed at the union, which
\* refers to it in turn; uniting the union with a constant went through it and
\* registered a union
C21_Witness ==
    /\ last.op = "new_or_type"
    /\ panic = None
    /\ is_union(types, last.args[1])
    /\ get_type_by_id(types, last.args[1]).lhs = TypeId_VOID_TYPE
    /\ get_type_by_id(types, TypeId_VOID_TYPE).to = last.args[1]
    /\ last.ret = count_of_types(types) - 1
    /\ last.ret = last.before


====
